---------------------------- MODULE Spec2Model ----------------------------
(***************************************************************************)
(* Model of the rasp_BME680 sensor session (bme680_lib.cpp): the in-memory *)
(* configuration, the forced-mode measurement cycle (beginReading /        *)
(* performReading) and the cached readings.  The Bosch driver calls        *)
(* (bme680_set_sensor_settings, bme680_set_sensor_mode,                    *)
(* bme680_get_profile_dur, bme680_get_sensor_data) are the environment:    *)
(* their results are inputs of the actions.                                *)
(***************************************************************************)
EXTENDS Integers, Sequences, FiniteSets

\* ------------------------------------------------------------------ bounds
\* millis() values explored: 0 .. MaxTime
MaxTime == 2
\* profile durations reported by the driver: 1 .. MaxDur (ms)
MaxDur == 1
\* time that may pass inside one call between its two millis() reads
MaxElapsed == 1
\* arguments tried on the setters in the configuration specification
MaxArg == 6
\* millis() values explored by the timing specification: 0 .. MaxClock
MaxClock == 4
\* rounds of the main loop
MaxLoops == 2

\* ------------------------------------------------- constants of the driver
BME680_OK == 0
\* what a failing driver call returns: any value but BME680_OK; the I2C
\* layer below it reports "0 = good, 1 = error"
DRIVER_ERROR == 1
BME680_OS_NONE == 0
BME680_OS_1X == 1
BME680_OS_2X == 2
BME680_OS_4X == 3
BME680_OS_8X == 4
BME680_OS_16X == 5
BME680_FILTER_SIZE_0 == 0
BME680_FILTER_SIZE_1 == 1
BME680_FILTER_SIZE_3 == 2
BME680_FILTER_SIZE_7 == 3
BME680_FILTER_SIZE_15 == 4
BME680_FILTER_SIZE_31 == 5
BME680_FILTER_SIZE_63 == 6
BME680_FILTER_SIZE_127 == 7
BME680_DISABLE_GAS_MEAS == 0
BME680_ENABLE_GAS_MEAS == 1
BME680_SLEEP_MODE == 0
BME680_FORCED_MODE == 1
BME680_OST_SEL == 1
BME680_OSP_SEL == 2
BME680_OSH_SEL == 4
BME680_FILTER_SEL == 16
BME680_GAS_SENSOR_SEL == 200
BME680_NEW_DATA_MSK == 128
BME680_HEAT_STAB_MSK == 16
\* uint8_t / uint16_t arguments: the largest value of the type
UINT8_MAX == 255
\* the largest uint16_t
UINT16_MAX == 65535
\* seconds between two rounds of the main loop
LOOPDELAY == 5

\* ----------------------------------------------------------- C arithmetic
RECURSIVE BitAnd(_, _)
\* a & b on non-negative integers
BitAnd(a, b) ==
    IF a = 0 \/ b = 0 THEN 0
    ELSE (a % 2) * (b % 2) + 2 * BitAnd(a \div 2, b \div 2)

RECURSIVE BitOr(_, _)
\* a | b on non-negative integers
BitOr(a, b) ==
    IF a = 0 THEN b
    ELSE IF b = 0 THEN a
    ELSE (IF (a % 2) + (b % 2) > 0 THEN 1 ELSE 0) + 2 * BitOr(a \div 2, b \div 2)

\* !x of C: 1 when x is zero, 0 otherwise
LogicalNot(x) == IF x = 0 THEN 1 ELSE 0

\* A float is modelled as the fraction <<numerator, denominator>>; NAN is 0/0.
NAN == <<0, 0>>
\* x / d in floating point
FDiv(x, d) == <<x, d>>
\* conversion of an integer to float
ToFloat(x) == <<x, 1>>

\* the threads that call beginReading in the concurrent specification
Callers == {"first", "second"}

\* ------------------------------------------------------------------ state
VARIABLES
    gas_sensor,      \* struct bme680_dev: power_mode, tph_sett, gas_sett
    _tempEnabled, _humEnabled, _presEnabled, _filterEnabled, _gasEnabled,
    _meas_end,       \* expected end of the cycle in progress, 0 = none
    profile_dur,     \* what bme680_get_profile_dur reported for that cycle
    temperature, humidity, pressure, gas_resistance,   \* cached readings
    now,             \* what millis() returns
    started,         \* begin() has succeeded
    op, arg, ret,    \* the last operation, its arguments and its result
    io,              \* the driver / hardware calls made by the last operation
    data,            \* the field data the last bme680_get_sensor_data gave
    returned,        \* the read accessor called last and the value it returned
    cmd,             \* the values given on the command line
    mm,              \* struct measure of the main program
    lloop,           \* the loop counter of main_loop
    pc,              \* where the main program is
    exit_status,     \* the exit status of the process, "running" before
    loops,           \* iterations of main_loop completed so far
    callers,         \* where each concurrent caller is inside beginReading
    device_settings  \* the bitset bme680_set_sensor_settings applied last

config == <<gas_sensor, _tempEnabled, _humEnabled, _presEnabled,
            _filterEnabled, _gasEnabled>>
readings == <<temperature, humidity, pressure, gas_resistance>>
vars == <<gas_sensor, _tempEnabled, _humEnabled, _presEnabled, _filterEnabled,
          _gasEnabled, _meas_end, profile_dur, temperature, humidity,
          pressure, gas_resistance, now, started, op, arg, ret, io, data,
          returned, cmd, mm, lloop, pc, exit_status, loops, callers,
          device_settings>>
\* the state of the callers of the class and of the device, which the class
\* does not hold
program == <<returned, cmd, mm, lloop, pc, exit_status, loops, callers,
             device_settings>>

\* one driver / hardware call: its argument and its result
Call(name, a, r) == [call |-> name, arg |-> a, rslt |-> r]

\* the int8_t a driver call returns
Rslt(ok) == IF ok THEN BME680_OK ELSE DRIVER_ERROR

\* a struct bme680_field_data that was not filled
NoData == [status |-> 0, temperature |-> 0, humidity |-> 0, pressure |-> 0,
           gas_resistance |-> 0]

\* The object is a global: its members start zeroed, the constructor clears
\* the enabled flags.
Init ==
    /\ gas_sensor = [power_mode |-> BME680_SLEEP_MODE,
                     os_temp |-> 0, os_hum |-> 0, os_pres |-> 0, filter |-> 0,
                     heatr_temp |-> 0, heatr_dur |-> 0,
                     run_gas |-> BME680_DISABLE_GAS_MEAS]
    /\ _tempEnabled = FALSE /\ _humEnabled = FALSE /\ _presEnabled = FALSE
    /\ _filterEnabled = FALSE /\ _gasEnabled = FALSE
    /\ _meas_end = 0 /\ profile_dur = 0
    /\ temperature = ToFloat(0) /\ humidity = ToFloat(0)
    /\ pressure = ToFloat(0) /\ gas_resistance = 0
    /\ now = 0
    /\ started = FALSE
    /\ op = "rasp_BME680" /\ arg = <<>> /\ ret = TRUE /\ io = <<>>
    /\ data = NoData
    /\ returned = [name |-> "none", value |-> 0]
    /\ cmd = <<>>
    /\ mm = [overSampleT |-> 0, overSampleH |-> 0, overSampleP |-> 0,
             filter |-> 0, heaterT |-> 0, heaterM |-> 0, loop |-> 0,
             loop_delay |-> 0, sealevel |-> ToFloat(0),
             tempC |-> ToFloat(0), humid |-> ToFloat(0),
             pressure |-> ToFloat(0), gas_resistance |-> 0,
             height |-> ToFloat(0)]
    /\ lloop = 0
    /\ pc = "main"
    /\ exit_status = "running"
    /\ loops = 0
    /\ callers = [c \in Callers |-> [pc |-> "idle", ret |-> 0]]
    /\ device_settings = 0


\* ---------------------------------------------------------------- setters
\* what a setter leaves alone: the cycle, the readings, the clock
SetterFrame ==
    UNCHANGED <<_meas_end, profile_dur, temperature, humidity, pressure,
                gas_resistance, now, started>>

\* setGasHeater that disables gas only when both arguments are zero
setGasHeater_BothZero(heaterTemp, heaterTime) ==
    /\ op' = "setGasHeater" /\ arg' = <<heaterTemp, heaterTime>>
    /\ io' = <<>> /\ data' = NoData
    /\ IF heaterTemp = 0 /\ heaterTime = 0
       THEN /\ gas_sensor' = [gas_sensor EXCEPT !.heatr_temp = heaterTemp,
                                                !.heatr_dur = heaterTime,
                                                !.run_gas = BME680_DISABLE_GAS_MEAS]
            /\ _gasEnabled' = FALSE
       ELSE /\ gas_sensor' = [gas_sensor EXCEPT !.heatr_temp = heaterTemp,
                                                !.heatr_dur = heaterTime,
                                                !.run_gas = BME680_ENABLE_GAS_MEAS]
            /\ _gasEnabled' = TRUE
    /\ ret' = TRUE
    /\ UNCHANGED <<_tempEnabled, _humEnabled, _presEnabled, _filterEnabled>>
    /\ SetterFrame

\* setGasHeater that stores the profile only when it enables the heater
setGasHeater_StoresWhenOn(heaterTemp, heaterTime) ==
    /\ op' = "setGasHeater" /\ arg' = <<heaterTemp, heaterTime>>
    /\ io' = <<>> /\ data' = NoData
    /\ IF heaterTemp = 0 \/ heaterTime = 0
       THEN /\ gas_sensor' = [gas_sensor EXCEPT !.run_gas = BME680_DISABLE_GAS_MEAS]
            /\ _gasEnabled' = FALSE
       ELSE /\ gas_sensor' = [gas_sensor EXCEPT !.heatr_temp = heaterTemp,
                                                !.heatr_dur = heaterTime,
                                                !.run_gas = BME680_ENABLE_GAS_MEAS]
            /\ _gasEnabled' = TRUE
    /\ ret' = TRUE
    /\ UNCHANGED <<_tempEnabled, _humEnabled, _presEnabled, _filterEnabled>>
    /\ SetterFrame

setGasHeater(heaterTemp, heaterTime) ==
    /\ op' = "setGasHeater" /\ arg' = <<heaterTemp, heaterTime>>
    /\ io' = <<>> /\ data' = NoData
    /\ IF heaterTemp = 0 \/ heaterTime = 0
       THEN /\ gas_sensor' = [gas_sensor EXCEPT !.heatr_temp = heaterTemp,
                                                !.heatr_dur = heaterTime,
                                                !.run_gas = BME680_DISABLE_GAS_MEAS]
            /\ _gasEnabled' = FALSE
       ELSE /\ gas_sensor' = [gas_sensor EXCEPT !.heatr_temp = heaterTemp,
                                                !.heatr_dur = heaterTime,
                                                !.run_gas = BME680_ENABLE_GAS_MEAS]
            /\ _gasEnabled' = TRUE
    /\ ret' = TRUE
    /\ UNCHANGED <<_tempEnabled, _humEnabled, _presEnabled, _filterEnabled>>
    /\ SetterFrame

\* the temperature setter that stores the value before it checks the range
setTemperatureOversampling_StoresFirst(oversample) ==
    /\ op' = "setTemperatureOversampling" /\ arg' = <<oversample>>
    /\ io' = <<>> /\ data' = NoData
    /\ gas_sensor' = [gas_sensor EXCEPT !.os_temp = oversample]
    /\ IF oversample > BME680_OS_16X
       THEN /\ ret' = FALSE
            /\ UNCHANGED _tempEnabled
       ELSE /\ _tempEnabled' = IF oversample = BME680_OS_NONE THEN FALSE ELSE TRUE
            /\ ret' = TRUE
    /\ UNCHANGED <<_humEnabled, _presEnabled, _filterEnabled, _gasEnabled>>
    /\ SetterFrame

setTemperatureOversampling(oversample) ==
    /\ op' = "setTemperatureOversampling" /\ arg' = <<oversample>>
    /\ io' = <<>> /\ data' = NoData
    /\ IF oversample > BME680_OS_16X
       THEN /\ ret' = FALSE
            /\ UNCHANGED <<gas_sensor, _tempEnabled>>
       ELSE /\ gas_sensor' = [gas_sensor EXCEPT !.os_temp = oversample]
            /\ _tempEnabled' = IF oversample = BME680_OS_NONE THEN FALSE ELSE TRUE
            /\ ret' = TRUE
    /\ UNCHANGED <<_humEnabled, _presEnabled, _filterEnabled, _gasEnabled>>
    /\ SetterFrame

\* the humidity setter that writes the temperature oversampling as well
setHumidityOversampling_WritesTemp(oversample) ==
    /\ op' = "setHumidityOversampling" /\ arg' = <<oversample>>
    /\ io' = <<>> /\ data' = NoData
    /\ IF oversample > BME680_OS_16X
       THEN /\ ret' = FALSE
            /\ UNCHANGED <<gas_sensor, _humEnabled>>
       ELSE /\ gas_sensor' = [gas_sensor EXCEPT !.os_hum = oversample,
                                                !.os_temp = oversample]
            /\ _humEnabled' = IF oversample = BME680_OS_NONE THEN FALSE ELSE TRUE
            /\ ret' = TRUE
    /\ UNCHANGED <<_tempEnabled, _presEnabled, _filterEnabled, _gasEnabled>>
    /\ SetterFrame

setHumidityOversampling(oversample) ==
    /\ op' = "setHumidityOversampling" /\ arg' = <<oversample>>
    /\ io' = <<>> /\ data' = NoData
    /\ IF oversample > BME680_OS_16X
       THEN /\ ret' = FALSE
            /\ UNCHANGED <<gas_sensor, _humEnabled>>
       ELSE /\ gas_sensor' = [gas_sensor EXCEPT !.os_hum = oversample]
            /\ _humEnabled' = IF oversample = BME680_OS_NONE THEN FALSE ELSE TRUE
            /\ ret' = TRUE
    /\ UNCHANGED <<_tempEnabled, _presEnabled, _filterEnabled, _gasEnabled>>
    /\ SetterFrame

\* the pressure setter with >= in its range check: 16X is refused
setPressureOversampling_RejectsMax(oversample) ==
    /\ op' = "setPressureOversampling" /\ arg' = <<oversample>>
    /\ io' = <<>> /\ data' = NoData
    /\ IF oversample >= BME680_OS_16X
       THEN /\ ret' = FALSE
            /\ UNCHANGED <<gas_sensor, _presEnabled>>
       ELSE /\ gas_sensor' = [gas_sensor EXCEPT !.os_pres = oversample]
            /\ _presEnabled' = IF oversample = BME680_OS_NONE THEN FALSE ELSE TRUE
            /\ ret' = TRUE
    /\ UNCHANGED <<_tempEnabled, _humEnabled, _filterEnabled, _gasEnabled>>
    /\ SetterFrame

setPressureOversampling(oversample) ==
    /\ op' = "setPressureOversampling" /\ arg' = <<oversample>>
    /\ io' = <<>> /\ data' = NoData
    /\ IF oversample > BME680_OS_16X
       THEN /\ ret' = FALSE
            /\ UNCHANGED <<gas_sensor, _presEnabled>>
       ELSE /\ gas_sensor' = [gas_sensor EXCEPT !.os_pres = oversample]
            /\ _presEnabled' = IF oversample = BME680_OS_NONE THEN FALSE ELSE TRUE
            /\ ret' = TRUE
    /\ UNCHANGED <<_tempEnabled, _humEnabled, _filterEnabled, _gasEnabled>>
    /\ SetterFrame

\* the filter setter with >= in its range check: size 127 is refused
setIIRFilterSize_RejectsMax(filtersize) ==
    /\ op' = "setIIRFilterSize" /\ arg' = <<filtersize>>
    /\ io' = <<>> /\ data' = NoData
    /\ IF filtersize >= BME680_FILTER_SIZE_127
       THEN /\ ret' = FALSE
            /\ UNCHANGED <<gas_sensor, _filterEnabled>>
       ELSE /\ gas_sensor' = [gas_sensor EXCEPT !.filter = filtersize]
            /\ _filterEnabled' = IF filtersize = BME680_FILTER_SIZE_0 THEN FALSE ELSE TRUE
            /\ ret' = TRUE
    /\ UNCHANGED <<_tempEnabled, _humEnabled, _presEnabled, _gasEnabled>>
    /\ SetterFrame

setIIRFilterSize(filtersize) ==
    /\ op' = "setIIRFilterSize" /\ arg' = <<filtersize>>
    /\ io' = <<>> /\ data' = NoData
    /\ IF filtersize > BME680_FILTER_SIZE_127
       THEN /\ ret' = FALSE
            /\ UNCHANGED <<gas_sensor, _filterEnabled>>
       ELSE /\ gas_sensor' = [gas_sensor EXCEPT !.filter = filtersize]
            /\ _filterEnabled' = IF filtersize = BME680_FILTER_SIZE_0 THEN FALSE ELSE TRUE
            /\ ret' = TRUE
    /\ UNCHANGED <<_tempEnabled, _humEnabled, _presEnabled, _gasEnabled>>
    /\ SetterFrame

\* getfilter() of the main program: the filter size in samples to the code
\* of the driver, 0xff for a size that does not exist
getfilter(opt) ==
    CASE opt = 0 -> BME680_FILTER_SIZE_0
      [] opt = 1 -> BME680_FILTER_SIZE_1
      [] opt = 3 -> BME680_FILTER_SIZE_3
      [] opt = 7 -> BME680_FILTER_SIZE_7
      [] opt = 15 -> BME680_FILTER_SIZE_15
      [] opt = 31 -> BME680_FILTER_SIZE_31
      [] opt = 63 -> BME680_FILTER_SIZE_63
      [] opt = 127 -> BME680_FILTER_SIZE_127
      [] OTHER -> UINT8_MAX

\* ------------------------------------------------------- begin and reset
\* begin(): twiOK is the result of TWI.begin, initOK that of bme680_init.
\* On success the five setters are called with the defaults, the power mode
\* is set and the start time of millis() is taken.
begin(twiOK, initOK) ==
    /\ op' = "begin" /\ arg' = <<>> /\ data' = NoData
    /\ IF ~twiOK
       THEN /\ ret' = FALSE
            /\ io' = <<Call("TWI.begin", 0, 1)>>
            /\ UNCHANGED <<config, now, started>>
       ELSE IF ~initOK
       THEN /\ ret' = FALSE
            /\ io' = <<Call("TWI.begin", 0, 0),
                        Call("bme680_init", 0, DRIVER_ERROR)>>
            /\ UNCHANGED <<config, now, started>>
       ELSE /\ ret' = TRUE
            /\ io' = <<Call("TWI.begin", 0, 0),
                        Call("bme680_init", 0, BME680_OK)>>
            /\ gas_sensor' = [power_mode |-> BME680_FORCED_MODE,
                              os_temp |-> BME680_OS_8X,
                              os_hum |-> BME680_OS_2X,
                              os_pres |-> BME680_OS_4X,
                              filter |-> BME680_FILTER_SIZE_3,
                              heatr_temp |-> 320, heatr_dur |-> 150,
                              run_gas |-> BME680_ENABLE_GAS_MEAS]
            /\ _tempEnabled' = TRUE /\ _humEnabled' = TRUE
            /\ _presEnabled' = TRUE /\ _filterEnabled' = TRUE
            /\ _gasEnabled' = TRUE
            /\ now' = 0
            /\ started' = TRUE
    /\ UNCHANGED <<_meas_end, profile_dur, temperature, humidity, pressure,
                   gas_resistance>>

\* reset that also brings the configuration back to the state of the
\* constructor
reset_ClearsConfig ==
    /\ op' = "reset" /\ arg' = <<>> /\ ret' = TRUE /\ data' = NoData
    /\ io' = <<Call("bme680_soft_reset", 0, BME680_OK)>>
    /\ gas_sensor' = [power_mode |-> BME680_SLEEP_MODE,
                      os_temp |-> 0, os_hum |-> 0, os_pres |-> 0, filter |-> 0,
                      heatr_temp |-> 0, heatr_dur |-> 0,
                      run_gas |-> BME680_DISABLE_GAS_MEAS]
    /\ _tempEnabled' = FALSE /\ _humEnabled' = FALSE /\ _presEnabled' = FALSE
    /\ _filterEnabled' = FALSE /\ _gasEnabled' = FALSE
    /\ UNCHANGED <<_meas_end, profile_dur, readings, now, started>>

reset ==
    /\ op' = "reset" /\ arg' = <<>> /\ ret' = TRUE /\ data' = NoData
    /\ io' = <<Call("bme680_soft_reset", 0, BME680_OK)>>
    /\ UNCHANGED <<config, _meas_end, profile_dur, readings, now, started>>

\* time passes between two operations
Tick ==
    /\ now < MaxTime
    /\ now' = now + 1
    /\ op' = "tick" /\ arg' = <<>> /\ ret' = TRUE /\ io' = <<>> /\ data' = NoData
    /\ UNCHANGED <<config, _meas_end, profile_dur, readings, started>>

\* ------------------------------------------------------ measurement cycle
\* set_required_settings with the bit of every stage, enabled or not
required_settings_AllStages ==
    BitOr(BitOr(BitOr(BME680_OST_SEL, BME680_OSH_SEL),
                BitOr(BME680_OSP_SEL, BME680_FILTER_SEL)),
          BME680_GAS_SENSOR_SEL)

\* set_required_settings as beginReading builds it from the enabled flags
required_settings ==
    LET s0 == 0
        s1 == IF _tempEnabled THEN BitOr(s0, BME680_OST_SEL) ELSE s0
        s2 == IF _humEnabled THEN BitOr(s1, BME680_OSH_SEL) ELSE s1
        s3 == IF _presEnabled THEN BitOr(s2, BME680_OSP_SEL) ELSE s2
        s4 == IF _filterEnabled THEN BitOr(s3, BME680_FILTER_SEL) ELSE s3
        s5 == IF _gasEnabled THEN BitOr(s4, BME680_GAS_SENSOR_SEL) ELSE s4
    IN  s5

\* beginReading without the "measurement already in progress" return
beginReading_Retrigger(settingsOK, modeOK, dur) ==
    IF ~settingsOK
    THEN [ret |-> 0, meas_end |-> _meas_end, dur |-> profile_dur,
          power_mode |-> BME680_FORCED_MODE,
          io |-> <<Call("bme680_set_sensor_settings", required_settings,
                        Rslt(FALSE))>>]
    ELSE IF ~modeOK
    THEN [ret |-> 0, meas_end |-> _meas_end, dur |-> profile_dur,
          power_mode |-> BME680_FORCED_MODE,
          io |-> <<Call("bme680_set_sensor_settings", required_settings,
                        Rslt(TRUE)),
                   Call("bme680_set_sensor_mode", BME680_FORCED_MODE,
                        Rslt(FALSE))>>]
    ELSE [ret |-> now + dur, meas_end |-> now + dur, dur |-> dur,
          power_mode |-> BME680_FORCED_MODE,
          io |-> <<Call("bme680_set_sensor_settings", required_settings,
                        Rslt(TRUE)),
                   Call("bme680_set_sensor_mode", BME680_FORCED_MODE,
                        Rslt(TRUE)),
                   Call("bme680_get_profile_dur", dur, BME680_OK)>>]

\* beginReading that does not look at the result of
\* bme680_set_sensor_settings
beginReading_IgnoreSettingsError(settingsOK, modeOK, dur) ==
    IF _meas_end # 0
    THEN [ret |-> _meas_end, meas_end |-> _meas_end, dur |-> profile_dur,
          power_mode |-> gas_sensor.power_mode, io |-> <<>>]
    ELSE IF ~modeOK
    THEN [ret |-> 0, meas_end |-> _meas_end, dur |-> profile_dur,
          power_mode |-> BME680_FORCED_MODE,
          io |-> <<Call("bme680_set_sensor_settings", required_settings,
                        Rslt(settingsOK)),
                   Call("bme680_set_sensor_mode", BME680_FORCED_MODE,
                        Rslt(FALSE))>>]
    ELSE [ret |-> now + dur, meas_end |-> now + dur, dur |-> dur,
          power_mode |-> BME680_FORCED_MODE,
          io |-> <<Call("bme680_set_sensor_settings", required_settings,
                        Rslt(settingsOK)),
                   Call("bme680_set_sensor_mode", BME680_FORCED_MODE,
                        Rslt(TRUE)),
                   Call("bme680_get_profile_dur", dur, BME680_OK)>>]

\* beginReading that stores the deadline before it sets the mode
beginReading_DeadlineBeforeMode(settingsOK, modeOK, dur) ==
    IF _meas_end # 0
    THEN [ret |-> _meas_end, meas_end |-> _meas_end, dur |-> profile_dur,
          power_mode |-> gas_sensor.power_mode, io |-> <<>>]
    ELSE IF ~settingsOK
    THEN [ret |-> 0, meas_end |-> _meas_end, dur |-> profile_dur,
          power_mode |-> BME680_FORCED_MODE,
          io |-> <<Call("bme680_set_sensor_settings", required_settings,
                        Rslt(FALSE))>>]
    ELSE IF ~modeOK
    THEN [ret |-> 0, meas_end |-> now + dur, dur |-> dur,
          power_mode |-> BME680_FORCED_MODE,
          io |-> <<Call("bme680_set_sensor_settings", required_settings,
                        Rslt(TRUE)),
                   Call("bme680_set_sensor_mode", BME680_FORCED_MODE,
                        Rslt(FALSE))>>]
    ELSE [ret |-> now + dur, meas_end |-> now + dur, dur |-> dur,
          power_mode |-> BME680_FORCED_MODE,
          io |-> <<Call("bme680_set_sensor_settings", required_settings,
                        Rslt(TRUE)),
                   Call("bme680_set_sensor_mode", BME680_FORCED_MODE,
                        Rslt(TRUE)),
                   Call("bme680_get_profile_dur", dur, BME680_OK)>>]

\* beginReading that takes the reported duration as the deadline, without
\* adding millis()
beginReading_DeadlineIsDuration(settingsOK, modeOK, dur) ==
    IF _meas_end # 0
    THEN [ret |-> _meas_end, meas_end |-> _meas_end, dur |-> profile_dur,
          power_mode |-> gas_sensor.power_mode, io |-> <<>>]
    ELSE IF ~settingsOK
    THEN [ret |-> 0, meas_end |-> _meas_end, dur |-> profile_dur,
          power_mode |-> BME680_FORCED_MODE,
          io |-> <<Call("bme680_set_sensor_settings", required_settings,
                        Rslt(FALSE))>>]
    ELSE IF ~modeOK
    THEN [ret |-> 0, meas_end |-> _meas_end, dur |-> profile_dur,
          power_mode |-> BME680_FORCED_MODE,
          io |-> <<Call("bme680_set_sensor_settings", required_settings,
                        Rslt(TRUE)),
                   Call("bme680_set_sensor_mode", BME680_FORCED_MODE,
                        Rslt(FALSE))>>]
    ELSE [ret |-> dur, meas_end |-> dur, dur |-> dur,
          power_mode |-> BME680_FORCED_MODE,
          io |-> <<Call("bme680_set_sensor_settings", required_settings,
                        Rslt(TRUE)),
                   Call("bme680_set_sensor_mode", BME680_FORCED_MODE,
                        Rslt(TRUE)),
                   Call("bme680_get_profile_dur", dur, BME680_OK)>>]

\* beginReading that sets the mode before it applies the settings
beginReading_ModeBeforeSettings(settingsOK, modeOK, dur) ==
    IF _meas_end # 0
    THEN [ret |-> _meas_end, meas_end |-> _meas_end, dur |-> profile_dur,
          power_mode |-> gas_sensor.power_mode, io |-> <<>>]
    ELSE IF ~modeOK
    THEN [ret |-> 0, meas_end |-> _meas_end, dur |-> profile_dur,
          power_mode |-> BME680_FORCED_MODE,
          io |-> <<Call("bme680_set_sensor_mode", BME680_FORCED_MODE,
                        Rslt(FALSE))>>]
    ELSE IF ~settingsOK
    THEN [ret |-> 0, meas_end |-> _meas_end, dur |-> profile_dur,
          power_mode |-> BME680_FORCED_MODE,
          io |-> <<Call("bme680_set_sensor_mode", BME680_FORCED_MODE,
                        Rslt(TRUE)),
                   Call("bme680_set_sensor_settings", required_settings,
                        Rslt(FALSE))>>]
    ELSE [ret |-> now + dur, meas_end |-> now + dur, dur |-> dur,
          power_mode |-> BME680_FORCED_MODE,
          io |-> <<Call("bme680_set_sensor_mode", BME680_FORCED_MODE,
                        Rslt(TRUE)),
                   Call("bme680_set_sensor_settings", required_settings,
                        Rslt(TRUE)),
                   Call("bme680_get_profile_dur", dur, BME680_OK)>>]

\* beginReading(): settingsOK and modeOK are the results of
\* bme680_set_sensor_settings and bme680_set_sensor_mode, dur is what
\* bme680_get_profile_dur reports.  The value is the returned number, the
\* _meas_end and power mode the call leaves, and the driver calls it made.
beginReading(settingsOK, modeOK, dur) ==
    IF _meas_end # 0
    THEN [ret |-> _meas_end, meas_end |-> _meas_end, dur |-> profile_dur,
          power_mode |-> gas_sensor.power_mode, io |-> <<>>]
    ELSE IF ~settingsOK
    THEN [ret |-> 0, meas_end |-> _meas_end, dur |-> profile_dur,
          power_mode |-> BME680_FORCED_MODE,
          io |-> <<Call("bme680_set_sensor_settings", required_settings,
                        Rslt(FALSE))>>]
    ELSE IF ~modeOK
    THEN [ret |-> 0, meas_end |-> _meas_end, dur |-> profile_dur,
          power_mode |-> BME680_FORCED_MODE,
          io |-> <<Call("bme680_set_sensor_settings", required_settings,
                        Rslt(TRUE)),
                   Call("bme680_set_sensor_mode", BME680_FORCED_MODE,
                        Rslt(FALSE))>>]
    ELSE [ret |-> now + dur, meas_end |-> now + dur, dur |-> dur,
          power_mode |-> BME680_FORCED_MODE,
          io |-> <<Call("bme680_set_sensor_settings", required_settings,
                        Rslt(TRUE)),
                   Call("bme680_set_sensor_mode", BME680_FORCED_MODE,
                        Rslt(TRUE)),
                   Call("bme680_get_profile_dur", dur, BME680_OK)>>]

\* a call of beginReading on its own
BeginReading(settingsOK, modeOK, dur) ==
    /\ started
    /\ \E b \in {beginReading(settingsOK, modeOK, dur)} :
          /\ ret' = b.ret
          /\ io' = b.io
          /\ _meas_end' = b.meas_end
          /\ profile_dur' = b.dur
          /\ gas_sensor' = [gas_sensor EXCEPT !.power_mode = b.power_mode]
    /\ op' = "beginReading" /\ arg' = <<>> /\ data' = NoData
    /\ UNCHANGED <<_tempEnabled, _humEnabled, _presEnabled, _filterEnabled,
                   _gasEnabled, temperature, humidity, pressure,
                   gas_resistance, now, started>>

\* "if NO new fields": the condition as the compiler reads it, (!status) & mask
NoNewFields(status) == BitAnd(LogicalNot(status), BME680_NEW_DATA_MSK) # 0

\* assignFields with the humidity scaled like the temperature
assignFields_HumidityScale(d) ==
    IF NoNewFields(d.status)
    THEN [temperature |-> NAN, humidity |-> NAN, pressure |-> NAN,
          gas_resistance |-> 0]
    ELSE [temperature |-> IF _tempEnabled THEN FDiv(d.temperature, 100) ELSE NAN,
          humidity |-> IF _humEnabled THEN FDiv(d.humidity, 100) ELSE NAN,
          pressure |-> IF _presEnabled THEN ToFloat(d.pressure) ELSE NAN,
          gas_resistance |->
              IF _gasEnabled
              THEN IF BitAnd(d.status, BME680_HEAT_STAB_MSK) # 0
                   THEN d.gas_resistance
                   ELSE 0
              ELSE gas_resistance]

\* the four readings performReading leaves once the field data d was read
assignFields(d) ==
    IF NoNewFields(d.status)
    THEN [temperature |-> NAN, humidity |-> NAN, pressure |-> NAN,
          gas_resistance |-> 0]
    ELSE [temperature |-> IF _tempEnabled THEN FDiv(d.temperature, 100) ELSE NAN,
          humidity |-> IF _humEnabled THEN FDiv(d.humidity, 1000) ELSE NAN,
          pressure |-> IF _presEnabled THEN ToFloat(d.pressure) ELSE NAN,
          gas_resistance |->
              IF _gasEnabled
              THEN IF BitAnd(d.status, BME680_HEAT_STAB_MSK) # 0
                   THEN d.gas_resistance
                   ELSE 0
              ELSE gas_resistance]

\* performReading that clears the readings when the field-data read fails
performReading_ClearsOnReadError(settingsOK, modeOK, dur, elapsed, readOK, d) ==
    /\ started
    /\ op' = "performReading" /\ arg' = <<>>
    /\ \E b \in {beginReading(settingsOK, modeOK, dur)} :
          /\ gas_sensor' = [gas_sensor EXCEPT !.power_mode = b.power_mode]
          /\ IF b.ret = 0
             THEN /\ ret' = FALSE
                  /\ io' = b.io
                  /\ data' = NoData
                  /\ _meas_end' = b.meas_end
                  /\ profile_dur' = b.dur
                  /\ UNCHANGED <<temperature, humidity, pressure,
                                 gas_resistance, now>>
             ELSE \E now2 \in {now + elapsed} :
                  \E meas_period \in {b.ret - now2} :
                  /\ IF b.ret > now2
                     THEN /\ now' = now2 + meas_period * 2
                          /\ io' = b.io
                                 \o <<Call("delay_ms", meas_period * 2, 0),
                                      Call("bme680_get_sensor_data", 0,
                                           Rslt(readOK))>>
                     ELSE /\ now' = now2
                          /\ io' = b.io
                                 \o <<Call("bme680_get_sensor_data", 0,
                                           Rslt(readOK))>>
                  /\ _meas_end' = 0
                  /\ profile_dur' = 0
                  /\ IF ~readOK
                     THEN /\ ret' = FALSE
                          /\ data' = NoData
                          /\ temperature' = NAN /\ humidity' = NAN
                          /\ pressure' = NAN /\ gas_resistance' = 0
                     ELSE \E f \in {assignFields(d)} :
                          /\ ret' = TRUE
                          /\ data' = d
                          /\ temperature' = f.temperature
                          /\ humidity' = f.humidity
                          /\ pressure' = f.pressure
                          /\ gas_resistance' = f.gas_resistance
    /\ UNCHANGED <<_tempEnabled, _humEnabled, _presEnabled, _filterEnabled,
                   _gasEnabled, started>>

\* performReading that clears _meas_end only after the field data was read
performReading_ClearsAfterRead(settingsOK, modeOK, dur, elapsed, readOK, d) ==
    /\ started
    /\ op' = "performReading" /\ arg' = <<>>
    /\ \E b \in {beginReading(settingsOK, modeOK, dur)} :
          /\ gas_sensor' = [gas_sensor EXCEPT !.power_mode = b.power_mode]
          /\ IF b.ret = 0
             THEN /\ ret' = FALSE
                  /\ io' = b.io
                  /\ data' = NoData
                  /\ _meas_end' = b.meas_end
                  /\ profile_dur' = b.dur
                  /\ UNCHANGED <<temperature, humidity, pressure,
                                 gas_resistance, now>>
             ELSE \E now2 \in {now + elapsed} :
                  \E meas_period \in {b.ret - now2} :
                  /\ IF b.ret > now2
                     THEN /\ now' = now2 + meas_period * 2
                          /\ io' = b.io
                                 \o <<Call("delay_ms", meas_period * 2, 0),
                                      Call("bme680_get_sensor_data", 0,
                                           Rslt(readOK))>>
                     ELSE /\ now' = now2
                          /\ io' = b.io
                                 \o <<Call("bme680_get_sensor_data", 0,
                                           Rslt(readOK))>>
                  /\ IF ~readOK
                     THEN /\ ret' = FALSE
                          /\ data' = NoData
                          /\ _meas_end' = b.meas_end
                          /\ profile_dur' = b.dur
                          /\ UNCHANGED <<temperature, humidity, pressure,
                                         gas_resistance>>
                     ELSE \E f \in {assignFields(d)} :
                          /\ ret' = TRUE
                          /\ _meas_end' = 0
                          /\ profile_dur' = 0
                          /\ data' = d
                          /\ temperature' = f.temperature
                          /\ humidity' = f.humidity
                          /\ pressure' = f.pressure
                          /\ gas_resistance' = f.gas_resistance
    /\ UNCHANGED <<_tempEnabled, _humEnabled, _presEnabled, _filterEnabled,
                   _gasEnabled, started>>

\* performReading that programs the device even when a cycle is in progress
performReading_AlwaysTrigger(settingsOK, modeOK, dur, elapsed, readOK, d) ==
    /\ started
    /\ op' = "performReading" /\ arg' = <<>>
    /\ \E b \in {beginReading_Retrigger(settingsOK, modeOK, dur)} :
          /\ gas_sensor' = [gas_sensor EXCEPT !.power_mode = b.power_mode]
          /\ IF b.ret = 0
             THEN /\ ret' = FALSE
                  /\ io' = b.io
                  /\ data' = NoData
                  /\ _meas_end' = b.meas_end
                  /\ profile_dur' = b.dur
                  /\ UNCHANGED <<temperature, humidity, pressure,
                                 gas_resistance, now>>
             ELSE \E now2 \in {now + elapsed} :
                  \E meas_period \in {b.ret - now2} :
                  /\ IF b.ret > now2
                     THEN /\ now' = now2 + meas_period * 2
                          /\ io' = b.io
                                 \o <<Call("delay_ms", meas_period * 2, 0),
                                      Call("bme680_get_sensor_data", 0,
                                           Rslt(readOK))>>
                     ELSE /\ now' = now2
                          /\ io' = b.io
                                 \o <<Call("bme680_get_sensor_data", 0,
                                           Rslt(readOK))>>
                  /\ _meas_end' = 0
                  /\ profile_dur' = 0
                  /\ IF ~readOK
                     THEN /\ ret' = FALSE
                          /\ data' = NoData
                          /\ UNCHANGED <<temperature, humidity, pressure,
                                         gas_resistance>>
                     ELSE \E f \in {assignFields(d)} :
                          /\ ret' = TRUE
                          /\ data' = d
                          /\ temperature' = f.temperature
                          /\ humidity' = f.humidity
                          /\ pressure' = f.pressure
                          /\ gas_resistance' = f.gas_resistance
    /\ UNCHANGED <<_tempEnabled, _humEnabled, _presEnabled, _filterEnabled,
                   _gasEnabled, started>>

\* performReading that waits the remaining time once, not twice
performReading_WaitsOnce(settingsOK, modeOK, dur, elapsed, readOK, d) ==
    /\ started
    /\ op' = "performReading" /\ arg' = <<>>
    /\ \E b \in {beginReading(settingsOK, modeOK, dur)} :
          /\ gas_sensor' = [gas_sensor EXCEPT !.power_mode = b.power_mode]
          /\ IF b.ret = 0
             THEN /\ ret' = FALSE
                  /\ io' = b.io
                  /\ data' = NoData
                  /\ _meas_end' = b.meas_end
                  /\ profile_dur' = b.dur
                  /\ UNCHANGED <<temperature, humidity, pressure,
                                 gas_resistance, now>>
             ELSE \E now2 \in {now + elapsed} :
                  \E meas_period \in {b.ret - now2} :
                  /\ IF b.ret > now2
                     THEN /\ now' = now2 + meas_period
                          /\ io' = b.io
                                 \o <<Call("delay_ms", meas_period, 0),
                                      Call("bme680_get_sensor_data", 0,
                                           Rslt(readOK))>>
                     ELSE /\ now' = now2
                          /\ io' = b.io
                                 \o <<Call("bme680_get_sensor_data", 0,
                                           Rslt(readOK))>>
                  /\ _meas_end' = 0
                  /\ profile_dur' = 0
                  /\ IF ~readOK
                     THEN /\ ret' = FALSE
                          /\ data' = NoData
                          /\ UNCHANGED <<temperature, humidity, pressure,
                                         gas_resistance>>
                     ELSE \E f \in {assignFields(d)} :
                          /\ ret' = TRUE
                          /\ data' = d
                          /\ temperature' = f.temperature
                          /\ humidity' = f.humidity
                          /\ pressure' = f.pressure
                          /\ gas_resistance' = f.gas_resistance
    /\ UNCHANGED <<_tempEnabled, _humEnabled, _presEnabled, _filterEnabled,
                   _gasEnabled, started>>

\* performReading that reads the field data without waiting for the deadline
performReading_NoWait(settingsOK, modeOK, dur, elapsed, readOK, d) ==
    /\ started
    /\ op' = "performReading" /\ arg' = <<>>
    /\ \E b \in {beginReading(settingsOK, modeOK, dur)} :
          /\ gas_sensor' = [gas_sensor EXCEPT !.power_mode = b.power_mode]
          /\ IF b.ret = 0
             THEN /\ ret' = FALSE
                  /\ io' = b.io
                  /\ data' = NoData
                  /\ _meas_end' = b.meas_end
                  /\ profile_dur' = b.dur
                  /\ UNCHANGED <<temperature, humidity, pressure,
                                 gas_resistance, now>>
             ELSE \E now2 \in {now + elapsed} :
                  \E meas_period \in {b.ret - now2} :
                  /\ IF b.ret > now2
                     THEN /\ now' = now2
                          /\ io' = b.io
                                 \o <<Call("bme680_get_sensor_data", 0,
                                           Rslt(readOK))>>
                     ELSE /\ now' = now2
                          /\ io' = b.io
                                 \o <<Call("bme680_get_sensor_data", 0,
                                           Rslt(readOK))>>
                  /\ _meas_end' = 0
                  /\ profile_dur' = 0
                  /\ IF ~readOK
                     THEN /\ ret' = FALSE
                          /\ data' = NoData
                          /\ UNCHANGED <<temperature, humidity, pressure,
                                         gas_resistance>>
                     ELSE \E f \in {assignFields(d)} :
                          /\ ret' = TRUE
                          /\ data' = d
                          /\ temperature' = f.temperature
                          /\ humidity' = f.humidity
                          /\ pressure' = f.pressure
                          /\ gas_resistance' = f.gas_resistance
    /\ UNCHANGED <<_tempEnabled, _humEnabled, _presEnabled, _filterEnabled,
                   _gasEnabled, started>>

\* performReading(): the three inputs of beginReading, the time `elapsed`
\* between the millis() of beginReading and the one of performReading,
\* readOK the result of bme680_get_sensor_data and d the field data it gave.
performReading(settingsOK, modeOK, dur, elapsed, readOK, d) ==
    /\ started
    /\ op' = "performReading" /\ arg' = <<>>
    /\ \E b \in {beginReading(settingsOK, modeOK, dur)} :
          /\ gas_sensor' = [gas_sensor EXCEPT !.power_mode = b.power_mode]
          /\ IF b.ret = 0
             THEN /\ ret' = FALSE
                  /\ io' = b.io
                  /\ data' = NoData
                  /\ _meas_end' = b.meas_end
                  /\ profile_dur' = b.dur
                  /\ UNCHANGED <<temperature, humidity, pressure,
                                 gas_resistance, now>>
             ELSE \E now2 \in {now + elapsed} :
                  \E meas_period \in {b.ret - now2} :
                  /\ IF b.ret > now2
                     THEN /\ now' = now2 + meas_period * 2
                          /\ io' = b.io
                                 \o <<Call("delay_ms", meas_period * 2, 0),
                                      Call("bme680_get_sensor_data", 0,
                                           Rslt(readOK))>>
                     ELSE /\ now' = now2
                          /\ io' = b.io
                                 \o <<Call("bme680_get_sensor_data", 0,
                                           Rslt(readOK))>>
                  /\ _meas_end' = 0
                  /\ profile_dur' = 0
                  /\ IF ~readOK
                     THEN /\ ret' = FALSE
                          /\ data' = NoData
                          /\ UNCHANGED <<temperature, humidity, pressure,
                                         gas_resistance>>
                     ELSE \E f \in {assignFields(d)} :
                          /\ ret' = TRUE
                          /\ data' = d
                          /\ temperature' = f.temperature
                          /\ humidity' = f.humidity
                          /\ pressure' = f.pressure
                          /\ gas_resistance' = f.gas_resistance
    /\ UNCHANGED <<_tempEnabled, _humEnabled, _presEnabled, _filterEnabled,
                   _gasEnabled, started>>

\* ------------------------------------------------------- I2C transport
\* the members of the object, which the transport functions do not touch
session == <<config, _meas_end, profile_dur, readings, now, started>>

\* the Wstatus values the switch statements tell apart, and "unknown" for
\* every other one (their default branch)
Wstatus == {"I2C_OK", "I2C_SDA_NACK", "I2C_SCL_CLKSTR", "I2C_SDA_DATA",
            "unknown"}

\* the switch with a default that returns 0
process_result_DefaultIsGood(result) ==
    CASE result = "I2C_OK" -> 0
      [] result = "I2C_SDA_NACK" -> 1
      [] result = "I2C_SCL_CLKSTR" -> 1
      [] result = "I2C_SDA_DATA" -> 1
      [] OTHER -> 0

\* switch(result) of i2c_read and i2c_write: what the call returns for the
\* result of its last attempt
process_result(result) ==
    CASE result = "I2C_OK" -> 0
      [] result = "I2C_SDA_NACK" -> 1
      [] result = "I2C_SCL_CLKSTR" -> 1
      [] result = "I2C_SDA_DATA" -> 1
      [] OTHER -> 1

RECURSIVE write_loop_RetryOnceMore(_, _)
\* the loop of i2c_write with `retry-- >= 0`
write_loop_RetryOnceMore(retry, calls) ==
    UNION {IF result # "I2C_OK" /\ retry >= 0
           THEN write_loop_RetryOnceMore(
                    retry - 1, Append(calls, Call("TWI.i2c_write", 0, result)))
           ELSE {[rslt |-> process_result(result),
                  io |-> Append(calls, Call("TWI.i2c_write", 0, result))]} :
           result \in Wstatus}

RECURSIVE write_loop(_, _)
\* the while (1) loop of i2c_write from the attempt that follows the bus
\* calls `calls`, with retry the counter before it; each TWI.i2c_write gives
\* any result.  The value is the set of ways the loop can end: the returned
\* number and the bus calls made.
write_loop(retry, calls) ==
    UNION {IF result # "I2C_OK" /\ retry > 0
           THEN write_loop(
                    retry - 1, Append(calls, Call("TWI.i2c_write", 0, result)))
           ELSE {[rslt |-> process_result(result),
                  io |-> Append(calls, Call("TWI.i2c_write", 0, result))]} :
           result \in Wstatus}

\* i2c_write(): tooLong is `len > BME680_TMP_BUFFER_LENGTH`
i2c_write(tooLong) ==
    /\ op' = "i2c_write" /\ arg' = <<>> /\ data' = NoData
    /\ IF tooLong
       THEN ret' = 1 /\ io' = <<>>
       ELSE \E w \in write_loop(3, <<>>) :
               ret' = w.rslt /\ io' = w.io
    /\ UNCHANGED session

\* one round of i2c_read: the write of the register address, which failed
\* when it gave `reg`, and the read of the data
read_calls(calls, reg, result) ==
    calls \o <<Call("TWI.i2c_write", 1, reg)>>
          \o (IF reg = "I2C_OK" THEN <<Call("TWI.i2c_read", 0, result)>>
              ELSE <<>>)

RECURSIVE read_loop(_, _)
\* the while (1) loop of i2c_read from the round that follows the bus calls
\* `calls`: the write of the register address and the TWI.i2c_read each
\* give any result
read_loop(retry, calls) ==
    UNION {IF reg # "I2C_OK"
           THEN {[rslt |-> 1, io |-> read_calls(calls, reg, result)]}
           ELSE IF result # "I2C_OK" /\ retry > 0
           THEN read_loop(retry - 1, read_calls(calls, reg, result))
           ELSE {[rslt |-> process_result(result),
                  io |-> read_calls(calls, reg, result)]} :
           reg \in {"I2C_OK", "I2C_SDA_NACK"}, result \in Wstatus}

i2c_read ==
    /\ op' = "i2c_read" /\ arg' = <<>> /\ data' = NoData
    /\ \E r \in read_loop(3, <<>>) :
          ret' = r.rslt /\ io' = r.io
    /\ UNCHANGED session

\* ------------------------------------------------------------ the inputs
\* status bytes: nothing set, heater stable only, new data only, both
StatusValues == {0, BME680_HEAT_STAB_MSK, BME680_NEW_DATA_MSK,
                 BME680_NEW_DATA_MSK + BME680_HEAT_STAB_MSK}
\* compensated values of the driver: centi-degrees, milli-percent, Pa, ohm
FieldData == [status : StatusValues, temperature : {2150},
              humidity : {45000}, pressure : {101325},
              gas_resistance : {12000, 50000}]
AnyData == CHOOSE x \in FieldData : TRUE
Durations == 1 .. MaxDur
\* the durations with 0, which a uint16_t meas_period can hold as well
AllDurations == 0 .. MaxDur
\* setter arguments tried in the cycle specification: off and the default
\* that begin() sets
TempArgs == {BME680_OS_NONE, BME680_OS_8X}
HumArgs == {BME680_OS_NONE, BME680_OS_2X}
PresArgs == {BME680_OS_NONE, BME680_OS_4X}
HeaterArgs == {<<0, 150>>, <<320, 150>>}
\* setter arguments of the configuration specification
AllArgs == (0 .. MaxArg) \cup {UINT8_MAX}
AllHeaterArgs == {0, 320} \X {0, 150}
\* the eight filter sizes, in samples
FilterSizes == {0, 1, 3, 7, 15, 31, 63, 127}
\* the filter sizes tried: the eight that exist and others
FilterOpts == FilterSizes \cup AllArgs
\* uint8_t values beyond the last oversampling / filter code
BadArgs == {BME680_OS_16X + 1, UINT8_MAX}
\* one field data: new data, heater stable
GoodData == [status |-> BME680_NEW_DATA_MSK + BME680_HEAT_STAB_MSK,
             temperature |-> 2150, humidity |-> 45000, pressure |-> 101325,
             gas_resistance |-> 12000]

\* Inputs that the call never looks at are fixed, so that one behaviour of
\* the code is one step of the model.
BeginInputs(s, m, dur) ==
    /\ (_meas_end # 0) => (s /\ m /\ dur = 1)
    /\ ~s => m
    /\ ~(s /\ m) => dur = 1

ReadInputs(s, m, e, r) ==
    (_meas_end = 0 /\ ~(s /\ m)) => (e = 0 /\ r)

DataInputs(r) == IF r THEN FieldData ELSE {AnyData}

\* ------------------------------------------------------- read accessors
\* Each accessor runs performReading(), drops its result and returns one
\* member; `returned` keeps the accessor and the value.
readTemperature(settingsOK, modeOK, dur, elapsed, readOK, d) ==
    /\ performReading(settingsOK, modeOK, dur, elapsed, readOK, d)
    /\ returned' = [name |-> "readTemperature", value |-> temperature']

readHumidity_ReturnsTemperature(settingsOK, modeOK, dur, elapsed, readOK, d) ==
    /\ performReading(settingsOK, modeOK, dur, elapsed, readOK, d)
    /\ returned' = [name |-> "readHumidity", value |-> temperature']

readHumidity(settingsOK, modeOK, dur, elapsed, readOK, d) ==
    /\ performReading(settingsOK, modeOK, dur, elapsed, readOK, d)
    /\ returned' = [name |-> "readHumidity", value |-> humidity']

readPressure_NaNOnFailure(settingsOK, modeOK, dur, elapsed, readOK, d) ==
    /\ performReading(settingsOK, modeOK, dur, elapsed, readOK, d)
    /\ returned' = [name |-> "readPressure",
                    value |-> IF ret' THEN pressure' ELSE NAN]

readPressure(settingsOK, modeOK, dur, elapsed, readOK, d) ==
    /\ performReading(settingsOK, modeOK, dur, elapsed, readOK, d)
    /\ returned' = [name |-> "readPressure", value |-> pressure']

readGas(settingsOK, modeOK, dur, elapsed, readOK, d) ==
    /\ performReading(settingsOK, modeOK, dur, elapsed, readOK, d)
    /\ returned' = [name |-> "readGas", value |-> gas_resistance']

\* 44330.0 * (1.0 - pow(atmospheric / seaLevel, 0.190284)), kept as the term
\* of its two arguments
Altitude(atmospheric, seaLevel) == <<"altitude", atmospheric, seaLevel>>

\* readAltitude() takes the pressure from readPressure()
readAltitude(seaLevel, settingsOK, modeOK, dur, elapsed, readOK, d) ==
    /\ performReading(settingsOK, modeOK, dur, elapsed, readOK, d)
    /\ returned' = [name |-> "readAltitude",
                    value |-> Altitude(pressure', seaLevel)]

\* ---------------------------------------------------------- main program
\* a step of the program outside the class
NoCall(name, r) ==
    /\ op' = name /\ arg' = <<>> /\ ret' = r /\ io' = <<>>
    /\ data' = NoData

\* the values of init_variables()
init_variables ==
    [overSampleT |-> 16, overSampleH |-> 8, overSampleP |-> 8, filter |-> 7,
     heaterT |-> 300, heaterM |-> 150, loop |-> 0, loop_delay |-> LOOPDELAY,
     sealevel |-> ToFloat(0), tempC |-> ToFloat(0), humid |-> ToFloat(0),
     pressure |-> ToFloat(0), gas_resistance |-> 0, height |-> ToFloat(0)]

\* (uint8_t) of the number strtod() read: the number when a uint8_t holds
\* it; beyond that the conversion is undefined and a build gives the low
\* byte or the largest value
Cast8(v) ==
    IF v <= UINT8_MAX THEN {v} ELSE {v % (UINT8_MAX + 1), UINT8_MAX}

\* what option o of command line c leaves in its uint8_t field
Field8(c, o, default) ==
    IF o \in DOMAIN c THEN Cast8(c[o]) ELSE {default}

\* the loop count -L leaves in the uint16_t field
FieldLoop(c, default) ==
    IF "L" \in DOMAIN c THEN c["L"] % (UINT16_MAX + 1) ELSE default

\* the temperature -C leaves in the uint16_t field heaterT; parse_cmdline()
\* ends the program for one above 400, and none above it is tried
FieldHeater(c, default) ==
    IF "C" \in DOMAIN c THEN c["C"] % (UINT16_MAX + 1) ELSE default

getOversample(opt) ==
    CASE opt = 0 -> BME680_OS_NONE
      [] opt = 1 -> BME680_OS_1X
      [] opt = 2 -> BME680_OS_2X
      [] opt = 4 -> BME680_OS_4X
      [] opt = 8 -> BME680_OS_8X
      [] opt = 16 -> BME680_OS_16X
      [] OTHER -> UINT8_MAX

\* main() up to init_hardware(): the defaults, the signal handlers and the
\* options of command line c
main(c) ==
    /\ pc = "main"
    /\ cmd' = c
    /\ \E t \in Field8(c, "T", init_variables.overSampleT),
          h \in Field8(c, "H", init_variables.overSampleH),
          p \in Field8(c, "P", init_variables.overSampleP),
          f \in Field8(c, "F", init_variables.filter) :
          mm' = [init_variables EXCEPT
                    !.overSampleT = t, !.overSampleH = h,
                    !.overSampleP = p, !.filter = f,
                    !.heaterT = FieldHeater(c, init_variables.heaterT),
                    !.loop = FieldLoop(c, init_variables.loop)]
    /\ pc' = "begin"
    /\ NoCall("main", TRUE)
    /\ UNCHANGED <<session, returned, lloop, exit_status, loops>>

\* what init_hardware() does with the result of a setter: the next setter,
\* or closeout(EXIT_FAILURE)
Checked(next) ==
    /\ pc' = IF ret' THEN next ELSE "closeout"
    /\ exit_status' = IF ret' THEN exit_status ELSE "EXIT_FAILURE"
    /\ UNCHANGED <<returned, cmd, mm, lloop, loops>>

\* init_hardware(): begin(), on failure exit(EXIT_FAILURE)
init_begin(twiOK, initOK) ==
    /\ pc = "begin"
    /\ begin(twiOK, initOK)
    /\ pc' = IF ret' THEN "setHumidityOversampling" ELSE "exited"
    /\ exit_status' = IF ret' THEN exit_status ELSE "EXIT_FAILURE"
    /\ UNCHANGED <<returned, cmd, mm, lloop, loops>>

init_humidity ==
    /\ pc = "setHumidityOversampling"
    /\ setHumidityOversampling(getOversample(mm.overSampleH))
    /\ Checked("setTemperatureOversampling")

init_temperature ==
    /\ pc = "setTemperatureOversampling"
    /\ setTemperatureOversampling(getOversample(mm.overSampleT))
    /\ Checked("setPressureOversampling")

init_pressure ==
    /\ pc = "setPressureOversampling"
    /\ setPressureOversampling(getOversample(mm.overSampleP))
    /\ Checked("setIIRFilterSize")

init_filter ==
    /\ pc = "setIIRFilterSize"
    /\ setIIRFilterSize(getfilter(mm.filter))
    /\ Checked("setGasHeater")

init_heater ==
    /\ pc = "setGasHeater"
    /\ setGasHeater(mm.heaterT, mm.heaterM)
    /\ Checked("main_loop")

\* a == b of two floats: false whenever one of them is NaN
FloatEq(a, b) == a # NAN /\ b # NAN /\ a[1] * b[2] = b[1] * a[2]

\* what read_BME680() does after an accessor: `failed` makes it return
\* false, and main_loop() then calls closeout(EXIT_FAILURE)
ReadChecked(failed, next) ==
    /\ pc' = IF failed THEN "closeout" ELSE next
    /\ exit_status' = IF failed THEN "EXIT_FAILURE" ELSE exit_status
    /\ UNCHANGED <<cmd, lloop, loops>>

\* main_loop() up to the first read_BME680(): the loop counter
main_loop ==
    /\ pc = "main_loop"
    /\ lloop' = IF mm.loop > 0 THEN mm.loop ELSE 1
    /\ pc' = "readTemperature"
    /\ NoCall("main_loop", TRUE)
    /\ UNCHANGED <<session, returned, cmd, mm, exit_status, loops>>

\* read_BME680(), one accessor call at a time
read_temperature(settingsOK, modeOK, dur, elapsed, readOK, d) ==
    /\ pc = "readTemperature"
    /\ loops < MaxLoops
    /\ readTemperature(settingsOK, modeOK, dur, elapsed, readOK, d)
    /\ mm' = [mm EXCEPT !.tempC = returned'.value]
    /\ ReadChecked(FloatEq(returned'.value, NAN), "readHumidity")

read_humidity(settingsOK, modeOK, dur, elapsed, readOK, d) ==
    /\ pc = "readHumidity"
    /\ readHumidity(settingsOK, modeOK, dur, elapsed, readOK, d)
    /\ mm' = [mm EXCEPT !.humid = returned'.value]
    /\ ReadChecked(FloatEq(returned'.value, NAN), "readPressure")

read_pressure(settingsOK, modeOK, dur, elapsed, readOK, d) ==
    /\ pc = "readPressure"
    /\ readPressure(settingsOK, modeOK, dur, elapsed, readOK, d)
    /\ mm' = [mm EXCEPT !.pressure = returned'.value]
    /\ ReadChecked(FloatEq(returned'.value, NAN), "readGas")

\* read_BME680() without the test of the gas resistance
read_gas_Unchecked(settingsOK, modeOK, dur, elapsed, readOK, d) ==
    /\ pc = "readGas"
    /\ readGas(settingsOK, modeOK, dur, elapsed, readOK, d)
    /\ mm' = [mm EXCEPT !.gas_resistance = returned'.value]
    /\ ReadChecked(FALSE, "readAltitude")

read_gas(settingsOK, modeOK, dur, elapsed, readOK, d) ==
    /\ pc = "readGas"
    /\ readGas(settingsOK, modeOK, dur, elapsed, readOK, d)
    /\ mm' = [mm EXCEPT !.gas_resistance = returned'.value]
    /\ ReadChecked(returned'.value = 0, "readAltitude")

read_altitude(settingsOK, modeOK, dur, elapsed, readOK, d) ==
    /\ pc = "readAltitude"
    /\ readAltitude(mm.sealevel, settingsOK, modeOK, dur, elapsed, readOK, d)
    /\ mm' = [mm EXCEPT !.height = returned'.value]
    /\ ReadChecked(FALSE, "do_output_values")

\* the rest of one round of main_loop(): the output, the sleep and the
\* count; when the loop ends main() calls closeout(EXIT_SUCCESS)
main_loop_output(outputOK) ==
    /\ pc = "do_output_values"
    /\ NoCall("do_output_values", outputOK)
    /\ IF ~outputOK
       THEN /\ pc' = "closeout"
            /\ exit_status' = "EXIT_FAILURE"
            /\ UNCHANGED <<now, lloop, loops>>
       ELSE /\ now' = now + mm.loop_delay * 1000
            /\ lloop' = IF mm.loop > 0 THEN lloop - 1 ELSE lloop
            /\ loops' = loops + 1
            /\ pc' = IF lloop' > 0 THEN "readTemperature" ELSE "closeout"
            /\ exit_status' = IF lloop' > 0 THEN exit_status
                              ELSE "EXIT_SUCCESS"
    /\ UNCHANGED <<config, _meas_end, profile_dur, readings, started,
                   returned, cmd, mm>>

\* hw_close(): TWI.close()
hw_close == Call("TWI.close", 0, 0)

\* what closeout(val) calls before exit(val): reset(), then hw_close()
closeout_calls == <<Call("bme680_soft_reset", 0, BME680_OK), hw_close>>

\* closeout(val): reset(), hw_close() and exit(val)
closeout ==
    /\ pc = "closeout"
    /\ op' = "closeout" /\ arg' = <<>> /\ ret' = TRUE /\ data' = NoData
    /\ io' = closeout_calls
    /\ pc' = "exited"
    /\ UNCHANGED <<session, returned, cmd, mm, lloop, exit_status, loops>>

\* the accessor calls of read_BME680()
ReadCalls == {"readTemperature", "readHumidity", "readPressure", "readGas",
              "readAltitude"}

\* signal_handler(): closeout(EXIT_SUCCESS), between two calls of the class
signal_handler ==
    /\ pc \notin {"main", "exited"}
    /\ op' = "signal_handler" /\ arg' = <<>> /\ ret' = TRUE
    /\ data' = NoData
    /\ io' = closeout_calls
    /\ pc' = "exited"
    /\ exit_status' = "EXIT_SUCCESS"
    /\ UNCHANGED <<session, returned, cmd, mm, lloop, loops>>

\* the interrupted wait, with the exit status of a failure
signal_handler_in_delay_ExitsFailure(settingsOK, modeOK, dur, elapsed) ==
    /\ pc \in ReadCalls
    /\ op' = "signal_handler" /\ arg' = <<>> /\ ret' = TRUE
    /\ data' = NoData
    /\ \E b \in {beginReading(settingsOK, modeOK, dur)} :
       \E now2 \in {now + elapsed} :
       \E meas_period \in {b.ret - now2} :
          /\ b.ret # 0
          /\ b.ret > now2
          /\ gas_sensor' = [gas_sensor EXCEPT !.power_mode = b.power_mode]
          /\ _meas_end' = b.meas_end
          /\ profile_dur' = b.dur
          /\ \E slept \in 0 .. meas_period * 2 - 1 : now' = now2 + slept
          /\ io' = b.io \o <<Call("delay_ms", meas_period * 2, 0)>>
                         \o closeout_calls
    /\ pc' = "exited"
    /\ exit_status' = "EXIT_FAILURE"
    /\ UNCHANGED <<_tempEnabled, _humEnabled, _presEnabled, _filterEnabled,
                   _gasEnabled, readings, started, returned, cmd, mm, lloop,
                   loops>>

\* signal_handler() while performReading() sleeps in delay_ms(): the
\* nanosleep() ends after `slept` ms, the handler runs closeout() and the
\* process exits inside it
signal_handler_in_delay(settingsOK, modeOK, dur, elapsed) ==
    /\ pc \in ReadCalls
    /\ op' = "signal_handler" /\ arg' = <<>> /\ ret' = TRUE
    /\ data' = NoData
    /\ \E b \in {beginReading(settingsOK, modeOK, dur)} :
       \E now2 \in {now + elapsed} :
       \E meas_period \in {b.ret - now2} :
          /\ b.ret # 0
          /\ b.ret > now2
          /\ gas_sensor' = [gas_sensor EXCEPT !.power_mode = b.power_mode]
          /\ _meas_end' = b.meas_end
          /\ profile_dur' = b.dur
          /\ \E slept \in 0 .. meas_period * 2 - 1 : now' = now2 + slept
          /\ io' = b.io \o <<Call("delay_ms", meas_period * 2, 0)>>
                         \o closeout_calls
    /\ pc' = "exited"
    /\ exit_status' = "EXIT_SUCCESS"
    /\ UNCHANGED <<_tempEnabled, _humEnabled, _presEnabled, _filterEnabled,
                   _gasEnabled, readings, started, returned, cmd, mm, lloop,
                   loops>>

\* ---------------------------------------------- concurrent beginReading
\* beginReading() called by two threads on the one object, with no lock: a
\* thread runs one statement that reads or writes shared state at a time.

\* what one statement of caller c leaves untouched
RaceFrame ==
    UNCHANGED <<_tempEnabled, _humEnabled, _presEnabled, _filterEnabled,
                _gasEnabled, temperature, humidity, pressure,
                gas_resistance, now, started, returned, cmd, mm, lloop, pc,
                exit_status, loops, device_settings>>

\* caller c is at statement `at`; it goes on to `next` or returns r
AtCall(c, at) ==
    /\ started
    /\ callers[c].pc = at
    /\ op' = "beginReading" /\ arg' = <<c>> /\ data' = NoData

Goes(c, next) ==
    /\ callers' = [callers EXCEPT ![c] = [pc |-> next, ret |-> 0]]
    /\ ret' = 0

Returns(c, r) ==
    /\ callers' = [callers EXCEPT ![c] = [pc |-> "idle", ret |-> r]]
    /\ ret' = r

\* lines 274-277: the test for a measurement in progress
beginReading_check(c) ==
    /\ AtCall(c, "idle")
    /\ io' = <<>>
    /\ IF _meas_end # 0 THEN Returns(c, _meas_end) ELSE Goes(c, "settings")
    /\ UNCHANGED <<gas_sensor, _meas_end, profile_dur>>
    /\ RaceFrame

\* lines 281-301: power mode, bitset, bme680_set_sensor_settings
beginReading_settings(c, settingsOK) ==
    /\ AtCall(c, "settings")
    /\ gas_sensor' = [gas_sensor EXCEPT !.power_mode = BME680_FORCED_MODE]
    /\ io' = <<Call("bme680_set_sensor_settings", required_settings,
                    Rslt(settingsOK))>>
    /\ IF settingsOK THEN Goes(c, "mode") ELSE Returns(c, 0)
    /\ UNCHANGED <<_meas_end, profile_dur>>
    /\ RaceFrame

\* lines 306-310: bme680_set_sensor_mode
beginReading_mode(c, modeOK) ==
    /\ AtCall(c, "mode")
    /\ io' = <<Call("bme680_set_sensor_mode", BME680_FORCED_MODE,
                    Rslt(modeOK))>>
    /\ IF modeOK THEN Goes(c, "deadline") ELSE Returns(c, 0)
    /\ UNCHANGED <<gas_sensor, _meas_end, profile_dur>>
    /\ RaceFrame

\* lines 313-318: bme680_get_profile_dur and the deadline
beginReading_deadline(c, dur) ==
    /\ AtCall(c, "deadline")
    /\ io' = <<Call("bme680_get_profile_dur", dur, BME680_OK)>>
    /\ _meas_end' = now + dur
    /\ profile_dur' = dur
    /\ Returns(c, now + dur)
    /\ UNCHANGED gas_sensor
    /\ RaceFrame

\* -------------------------------------------------------- specifications
Next ==
    \/ \E t, i \in BOOLEAN : (~t => i) /\ begin(t, i) /\ UNCHANGED program
    \/ Tick /\ UNCHANGED program
    \/ \E a \in TempArgs : setTemperatureOversampling(a) /\ UNCHANGED program
    \/ \E a \in HumArgs : setHumidityOversampling(a) /\ UNCHANGED program
    \/ \E a \in PresArgs : setPressureOversampling(a) /\ UNCHANGED program
    \/ \E h \in HeaterArgs : setGasHeater(h[1], h[2]) /\ UNCHANGED program
    \/ \E s, m \in BOOLEAN, dur \in Durations :
          BeginInputs(s, m, dur) /\ BeginReading(s, m, dur)
          /\ UNCHANGED program
    \/ \E s, m \in BOOLEAN, dur \in Durations :
          /\ BeginInputs(s, m, dur)
          /\ \E r \in BOOLEAN, e \in 0 .. MaxElapsed :
                /\ ReadInputs(s, m, e, r)
                /\ \E d \in DataInputs(r) :
                      /\ performReading(s, m, dur, e, r, d)
                      /\ now' <= MaxTime
                      /\ UNCHANGED program

Spec == Init /\ [][Next]_vars

\* the setters alone, over every argument up to MaxArg
NextCfg ==
    \/ reset /\ UNCHANGED program
    \/ \E a \in AllArgs : setTemperatureOversampling(a) /\ UNCHANGED program
    \/ \E a \in AllArgs : setHumidityOversampling(a) /\ UNCHANGED program
    \/ \E a \in AllArgs : setPressureOversampling(a) /\ UNCHANGED program
    \/ \E opt \in FilterOpts : setIIRFilterSize(getfilter(opt))
          /\ UNCHANGED program
    \/ \E h \in AllHeaterArgs : setGasHeater(h[1], h[2]) /\ UNCHANGED program

SpecCfg == Init /\ [][NextCfg]_vars

\* every operation of the class: each setter with one accepted value other
\* than the default of begin() and with the refused values, around the
\* measurement cycle
NextAll ==
    \/ begin(TRUE, TRUE) /\ UNCHANGED program
    \/ reset /\ UNCHANGED program
    \/ \E a \in {BME680_OS_NONE} \cup BadArgs : setTemperatureOversampling(a)
          /\ UNCHANGED program
    \/ \E a \in {BME680_OS_1X} \cup BadArgs : setHumidityOversampling(a)
          /\ UNCHANGED program
    \/ \E a \in {BME680_OS_16X} \cup BadArgs : setPressureOversampling(a)
          /\ UNCHANGED program
    \/ \E a \in {BME680_FILTER_SIZE_0, UINT8_MAX} : setIIRFilterSize(a)
          /\ UNCHANGED program
    \/ \E h \in HeaterArgs : setGasHeater(h[1], h[2]) /\ UNCHANGED program
    \/ \E s, m \in BOOLEAN, dur \in Durations :
          BeginInputs(s, m, dur) /\ BeginReading(s, m, dur)
          /\ UNCHANGED program
    \/ \E s, m \in BOOLEAN, dur \in Durations :
          /\ BeginInputs(s, m, dur)
          /\ \E r \in BOOLEAN, e \in 0 .. MaxElapsed :
                /\ ReadInputs(s, m, e, r)
                /\ performReading(s, m, dur, e, r, GoodData)
                /\ now' <= MaxTime
                /\ UNCHANGED program

SpecAll == Init /\ [][NextAll]_vars

\* the two transport functions the driver is given, on every run of bus
\* outcomes
NextTwi ==
    \/ \E tooLong \in BOOLEAN : i2c_write(tooLong) /\ UNCHANGED program
    \/ i2c_read /\ UNCHANGED program

SpecTwi == Init /\ [][NextTwi]_vars

\* the measurement cycle alone, under the configuration of begin(), over a
\* longer stretch of time
NextTime ==
    \/ begin(TRUE, TRUE) /\ UNCHANGED program
    \/ Tick /\ UNCHANGED program
    \/ \E s, m \in BOOLEAN, dur \in Durations :
          BeginInputs(s, m, dur) /\ BeginReading(s, m, dur)
          /\ UNCHANGED program
    \/ \E s, m \in BOOLEAN, dur \in Durations :
          /\ BeginInputs(s, m, dur)
          /\ \E r \in BOOLEAN, e \in 0 .. MaxElapsed :
                /\ ReadInputs(s, m, e, r)
                /\ \E d \in DataInputs(r) :
                      /\ performReading(s, m, dur, e, r, d)
                      /\ now' <= MaxClock
                      /\ UNCHANGED program

SpecTime == Init /\ [][NextTime]_vars

\* the field data tried in the main program: every status byte
MainData == {d \in FieldData : d.gas_resistance = 12000}
\* inputs that the accessor never looks at are fixed
MainInputs(s, m, e, r, d) ==
    /\ ~s => m
    /\ ~(s /\ m) => (r /\ e = 0)
    /\ ~(s /\ m /\ r) => d = GoodData
\* the main program: command lines with and without -T, -H, -P, -F, -L and
\* -C, with numbers that are no oversampling / filter size (3, 5, 2), that a
\* uint8_t does not hold (260) and that a uint16_t does not hold (65537),
\* with the oversampling 0 that turns the pressure measurement off and the
\* heater temperature 0 that turns the gas measurement off; -P and -C are
\* tried without -T, -H and -F
CmdLines ==
    {c \in UNION {[D -> {0, 2, 3, 5, 260, 65537}] :
                     D \in SUBSET {"T", "H", "P", "F", "L", "C"}} :
        /\ DOMAIN c \cap {"P", "C"} # {} => DOMAIN c \subseteq {"P", "C", "L"}
        /\ "P" \in DOMAIN c => c["P"] \in {0}
        /\ "C" \in DOMAIN c => c["C"] \in {0}
        /\ "T" \in DOMAIN c => c["T"] \in {3, 260}
        /\ "H" \in DOMAIN c => c["H"] \in {5}
        /\ "F" \in DOMAIN c => c["F"] \in {2}
        /\ "L" \in DOMAIN c => c["L"] \in {2, 65537}}

NextMain ==
    \/ \E c \in CmdLines : main(c) /\ UNCHANGED <<callers, device_settings>>
    \/ \E t, i \in BOOLEAN : (~t => i) /\ init_begin(t, i) /\ UNCHANGED <<callers, device_settings>>
    \/ init_humidity /\ UNCHANGED <<callers, device_settings>>
    \/ init_temperature /\ UNCHANGED <<callers, device_settings>>
    \/ init_pressure /\ UNCHANGED <<callers, device_settings>>
    \/ init_filter /\ UNCHANGED <<callers, device_settings>>
    \/ init_heater /\ UNCHANGED <<callers, device_settings>>
    \/ main_loop /\ UNCHANGED <<callers, device_settings>>
    \/ \E s, m, r \in BOOLEAN, e \in 0 .. MaxElapsed, d \in MainData :
          MainInputs(s, m, e, r, d) /\ read_temperature(s, m, 1, e, r, d)
          /\ UNCHANGED <<callers, device_settings>>
    \/ \E s, m, r \in BOOLEAN, e \in 0 .. MaxElapsed, d \in MainData :
          MainInputs(s, m, e, r, d) /\ read_humidity(s, m, 1, e, r, d)
          /\ UNCHANGED <<callers, device_settings>>
    \/ \E s, m, r \in BOOLEAN, e \in 0 .. MaxElapsed, d \in MainData :
          MainInputs(s, m, e, r, d) /\ read_pressure(s, m, 1, e, r, d)
          /\ UNCHANGED <<callers, device_settings>>
    \/ \E s, m, r \in BOOLEAN, e \in 0 .. MaxElapsed, d \in MainData :
          MainInputs(s, m, e, r, d) /\ read_gas(s, m, 1, e, r, d)
          /\ UNCHANGED <<callers, device_settings>>
    \/ \E s, m, r \in BOOLEAN, e \in 0 .. MaxElapsed, d \in MainData :
          MainInputs(s, m, e, r, d) /\ read_altitude(s, m, 1, e, r, d)
          /\ UNCHANGED <<callers, device_settings>>
    \/ \E ok \in BOOLEAN : main_loop_output(ok) /\ UNCHANGED <<callers, device_settings>>
    \/ closeout /\ UNCHANGED <<callers, device_settings>>
    \/ signal_handler /\ UNCHANGED <<callers, device_settings>>
    \/ signal_handler_in_delay(TRUE, TRUE, 1, 0) /\ UNCHANGED <<callers, device_settings>>

SpecMain == Init /\ [][NextMain]_vars

\* two threads in beginReading(), with the fetch between their calls
NextRace ==
    \/ begin(TRUE, TRUE) /\ (\A c \in Callers : callers[c].pc = "idle")
          /\ UNCHANGED program
    \/ Tick /\ UNCHANGED program
    \/ \E c \in Callers : beginReading_check(c)
    \/ \E c \in Callers, ok \in BOOLEAN : beginReading_settings(c, ok)
    \/ \E c \in Callers, ok \in BOOLEAN : beginReading_mode(c, ok)
    \/ \E c \in Callers, dur \in Durations : beginReading_deadline(c, dur)
    \/ \E r \in BOOLEAN, e \in 0 .. MaxElapsed :
          /\ \A c \in Callers : callers[c].pc = "idle"
          /\ _meas_end # 0
          /\ performReading(TRUE, TRUE, 1, e, r, GoodData)
          /\ now' <= MaxTime
          /\ UNCHANGED program

SpecRace == Init /\ [][NextRace]_vars

\* the trigger under every combination of enabled stages: each setter with
\* the value that disables its stage and with the default of begin()
NextBits ==
    \/ begin(TRUE, TRUE) /\ UNCHANGED program
    \/ \E a \in TempArgs : setTemperatureOversampling(a) /\ UNCHANGED program
    \/ \E a \in HumArgs : setHumidityOversampling(a) /\ UNCHANGED program
    \/ \E a \in PresArgs : setPressureOversampling(a) /\ UNCHANGED program
    \/ \E a \in {BME680_FILTER_SIZE_0, BME680_FILTER_SIZE_3} :
          setIIRFilterSize(a) /\ UNCHANGED program
    \/ \E h \in HeaterArgs : setGasHeater(h[1], h[2]) /\ UNCHANGED program
    \/ \E s, m \in BOOLEAN, dur \in Durations :
          BeginInputs(s, m, dur) /\ BeginReading(s, m, dur)
          /\ UNCHANGED program

SpecBits == Init /\ [][NextBits]_vars

\* the measurement cycle with every duration bme680_get_profile_dur can
\* report, 0 included
NextZero ==
    \/ begin(TRUE, TRUE) /\ UNCHANGED program
    \/ Tick /\ UNCHANGED program
    \/ \E s, m \in BOOLEAN, dur \in AllDurations :
          BeginInputs(s, m, dur) /\ BeginReading(s, m, dur)
          /\ UNCHANGED program
    \/ \E s, m \in BOOLEAN, dur \in AllDurations :
          /\ BeginInputs(s, m, dur)
          /\ \E r \in BOOLEAN, e \in 0 .. MaxElapsed :
                /\ ReadInputs(s, m, e, r)
                /\ \E d \in DataInputs(r) :
                      /\ performReading(s, m, dur, e, r, d)
                      /\ now' <= MaxTime
                      /\ UNCHANGED program

SpecZero == Init /\ [][NextZero]_vars

\* the callers of the class, without the device
outside == <<returned, cmd, mm, lloop, pc, exit_status, loops, callers>>

\* the device keeps the bitset of a settings-apply that succeeded
Applies ==
    device_settings' =
        IF /\ io' # <<>>
           /\ io'[1].call = "bme680_set_sensor_settings"
           /\ io'[1].rslt = BME680_OK
        THEN io'[1].arg
        ELSE device_settings

\* the measurement cycle with the device that is programmed by it: setters
\* between trigger and fetch
NextDevice ==
    \/ begin(TRUE, TRUE) /\ UNCHANGED program
    \/ \E a \in TempArgs : setTemperatureOversampling(a) /\ UNCHANGED program
    \/ \E a \in HumArgs : setHumidityOversampling(a) /\ UNCHANGED program
    \/ \E a \in PresArgs : setPressureOversampling(a) /\ UNCHANGED program
    \/ \E s, m \in BOOLEAN, dur \in Durations :
          BeginInputs(s, m, dur) /\ BeginReading(s, m, dur)
          /\ Applies /\ UNCHANGED outside
    \/ \E s, m \in BOOLEAN, dur \in Durations :
          /\ BeginInputs(s, m, dur)
          /\ \E r \in BOOLEAN, e \in 0 .. MaxElapsed :
                /\ ReadInputs(s, m, e, r)
                /\ performReading(s, m, dur, e, r, GoodData)
                /\ now' <= MaxTime
                /\ Applies /\ UNCHANGED outside

SpecDevice == Init /\ [][NextDevice]_vars

\* ------------------------------------------------------------ properties
\* the status byte carries the "new data" bit / the "heater stable" bit
NewData(status) == BitAnd(status, BME680_NEW_DATA_MSK) # 0
HeaterStable(status) == BitAnd(status, BME680_HEAT_STAB_MSK) # 0

\* the last operation ran the trigger and its settings-apply step failed
SettingsFailed ==
    /\ op \in {"beginReading", "performReading"}
    /\ io # <<>>
    /\ io[1].call = "bme680_set_sensor_settings"
    /\ io[1].rslt # BME680_OK

\* the last operation ran the trigger, settings-apply succeeded and the
\* forced-mode step failed
ModeFailed ==
    /\ op \in {"beginReading", "performReading"}
    /\ Len(io) >= 2
    /\ io[1].call = "bme680_set_sensor_settings" /\ io[1].rslt = BME680_OK
    /\ io[2].call = "bme680_set_sensor_mode" /\ io[2].rslt # BME680_OK

\* the last operation was a performReading that read field data and
\* returned true
Fetched == op = "performReading" /\ ret = TRUE

\* C1: beginReading called while a cycle is in progress (_meas_end # 0)
\* returns the stored deadline, makes no driver call and leaves the deadline
\* as it was; two consecutive beginReading calls of which the first returned
\* a deadline return the same deadline.
C1_RetriggerIsNoOp ==
    [][ /\ (op' = "beginReading" /\ _meas_end # 0)
            => (ret' = _meas_end /\ io' = <<>> /\ _meas_end' = _meas_end)
        /\ (op = "beginReading" /\ ret # 0 /\ op' = "beginReading")
            => ret' = ret ]_vars

\* C1 witness: a beginReading found a cycle in progress and returned its
\* deadline without any driver call.
C1_Witness ==
    op = "beginReading" /\ _meas_end # 0 /\ ret = _meas_end /\ io = <<>>

\* C2: when the status read lacks the new-data bit, performReading returns
\* true with temperature, humidity and pressure NaN and gas_resistance 0.
C2_NoNewDataGivesNaN ==
    (Fetched /\ ~NewData(data.status))
        => (temperature = NAN /\ humidity = NAN /\ pressure = NAN
            /\ gas_resistance = 0)

\* C3: after a successful performReading whose status has new-data but not
\* heater-stable, gas_resistance is 0, whatever the gas enable flag and the
\* value cached before.
C3_UnstableHeaterGasZero ==
    (Fetched /\ NewData(data.status) /\ ~HeaterStable(data.status))
        => gas_resistance = 0

\* C4: if settings-apply fails in the trigger, the trigger returns 0 (fails),
\* the mode-set step is not attempted, no deadline is stored and no cycle is
\* in progress afterwards.
C4_SettingsFailure ==
    SettingsFailed
        => (/\ Len(io) = 1
            /\ _meas_end = 0
            /\ op = "beginReading" => ret = 0
            /\ op = "performReading" => ret = FALSE)

\* C4 witness: a beginReading whose settings-apply step failed.
C4_Witness == SettingsFailed /\ op = "beginReading"

\* C5 as claimed: a mode-set failure stores no deadline, leaves no cycle in
\* progress and gives a result the caller can tell apart from the one of a
\* settings-apply failure (here: of the beginReading call just before).
C5_ModeErrorDistinct ==
    [][ (op' = "beginReading" /\ ModeFailed')
            => (/\ _meas_end' = 0
                /\ (op = "beginReading" /\ SettingsFailed) => ret' # ret) ]_vars

\* C5 as amended: if settings-apply succeeds and the forced-mode step fails,
\* the trigger returns 0, the same value as for a settings-apply failure,
\* makes no further driver call, stores no deadline and leaves no cycle in
\* progress.
C5_ModeFailure ==
    ModeFailed
        => (/\ Len(io) = 2
            /\ _meas_end = 0
            /\ op = "beginReading" => ret = 0
            /\ op = "performReading" => ret = FALSE)

\* C5 witness: a beginReading whose forced-mode step failed.
C5_Witness == ModeFailed /\ op = "beginReading"

\* C6: a performReading that returns false leaves temperature, humidity,
\* pressure and gas_resistance as they were before the call.
C6_FailureKeepsReadings ==
    [][ (op' = "performReading" /\ ret' = FALSE)
            => UNCHANGED <<temperature, humidity, pressure, gas_resistance>>
      ]_vars

\* C6 witness: a performReading failed in its field-data read while readings
\* of an earlier fetch were cached.
C6_Witness ==
    /\ op = "performReading" /\ ret = FALSE
    /\ io[Len(io)].call = "bme680_get_sensor_data"
    /\ temperature = FDiv(2150, 100) /\ gas_resistance # 0

\* C7: every performReading that returns true overwrites all four readings:
\* each holds a value of this fetch (the compensated value, or NaN / 0), none
\* a value of an earlier fetch.
C7_SuccessOverwritesAll ==
    Fetched
        => (/\ temperature \in {NAN, FDiv(data.temperature, 100)}
            /\ humidity \in {NAN, FDiv(data.humidity, 1000)}
            /\ pressure \in {NAN, ToFloat(data.pressure)}
            /\ gas_resistance \in {0, data.gas_resistance})

\* C8: on a successful fetch with new data, temperature, humidity and
\* pressure hold temperature/100, humidity/1000 and the pressure as it is
\* for an enabled channel and NaN for a disabled one.
C8_ChannelValues ==
    (Fetched /\ NewData(data.status))
        => (/\ temperature = IF _tempEnabled
                             THEN FDiv(data.temperature, 100) ELSE NAN
            /\ humidity = IF _humEnabled
                          THEN FDiv(data.humidity, 1000) ELSE NAN
            /\ pressure = IF _presEnabled
                          THEN ToFloat(data.pressure) ELSE NAN)

\* C8 witness: a fetch with new data while temperature is enabled and
\* humidity is disabled.
C8_Witness ==
    /\ Fetched /\ NewData(data.status)
    /\ _tempEnabled /\ ~_humEnabled /\ _presEnabled

\* C9: on a successful fetch with new data and a stable heater,
\* gas_resistance is the compensated gas resistance of that fetch.
C9_StableHeaterGasAssigned ==
    (Fetched /\ NewData(data.status) /\ HeaterStable(data.status))
        => gas_resistance = data.gas_resistance

\* C10: each oversampling setter, given a value from NONE to 16X, returns
\* true, stores the value for its channel and sets the channel's enabled
\* flag to (value # NONE).
C10_OversamplingAccepted ==
    /\ (op = "setTemperatureOversampling"
        /\ arg[1] \in BME680_OS_NONE .. BME680_OS_16X)
        => (/\ ret = TRUE
            /\ gas_sensor.os_temp = arg[1]
            /\ _tempEnabled = (arg[1] # BME680_OS_NONE))
    /\ (op = "setHumidityOversampling"
        /\ arg[1] \in BME680_OS_NONE .. BME680_OS_16X)
        => (/\ ret = TRUE
            /\ gas_sensor.os_hum = arg[1]
            /\ _humEnabled = (arg[1] # BME680_OS_NONE))
    /\ (op = "setPressureOversampling"
        /\ arg[1] \in BME680_OS_NONE .. BME680_OS_16X)
        => (/\ ret = TRUE
            /\ gas_sensor.os_pres = arg[1]
            /\ _presEnabled = (arg[1] # BME680_OS_NONE))

\* C10 witness: the largest setting, 16X, was given to the pressure setter
\* after the channel had been switched off.
C10_Witness ==
    /\ op = "setPressureOversampling" /\ arg = <<BME680_OS_16X>>
    /\ _presEnabled /\ ~_tempEnabled /\ gas_sensor.os_hum = BME680_OS_1X

\* C11: an oversampling setter given a value outside NONE .. 16X returns
\* false and leaves everything as it was: the stored oversampling, filter and
\* heater profile, all enabled flags, the cycle in progress and the cached
\* readings.
C11_InvalidOversamplingRefused ==
    [][ (/\ op' \in {"setTemperatureOversampling", "setHumidityOversampling",
                     "setPressureOversampling"}
         /\ arg'[1] \notin BME680_OS_NONE .. BME680_OS_16X)
            => (/\ ret' = FALSE
                /\ io' = <<>>
                /\ UNCHANGED <<config, _meas_end, readings>>) ]_vars

\* C11 witness: the pressure setter refused a value while a cycle was in
\* progress and readings of an earlier fetch were cached.
C11_Witness ==
    /\ op = "setPressureOversampling" /\ arg = <<BME680_OS_16X + 1>>
    /\ ret = FALSE
    /\ _meas_end # 0 /\ temperature = FDiv(2150, 100) /\ gas_resistance # 0
    /\ gas_sensor.os_pres = BME680_OS_16X

\* C12: the filter setter, given the code of one of the eight filter sizes
\* 0, 1, 3, 7, 15, 31, 63, 127, returns true, stores it and sets the filter
\* flag to (size # 0); for every other size it returns false and leaves the
\* stored filter and the flag as they were.
C12_FilterSizes ==
    [][ op' = "setIIRFilterSize"
            => \A opt \in FilterOpts :
                  arg'[1] = getfilter(opt)
                    => IF opt \in FilterSizes
                       THEN /\ ret' = TRUE
                            /\ gas_sensor'.filter = getfilter(opt)
                            /\ _filterEnabled' = (opt # 0)
                       ELSE /\ ret' = FALSE
                            /\ UNCHANGED <<gas_sensor, _filterEnabled>> ]_vars

\* C12 witness: the largest filter size, 127 samples, was set.
C12_Witness ==
    /\ op = "setIIRFilterSize" /\ arg = <<getfilter(127)>> /\ ret = TRUE
    /\ gas_sensor.filter = BME680_FILTER_SIZE_127 /\ _filterEnabled

\* C13: setGasHeater returns true for every pair of arguments, stores both,
\* and leaves gas measurement enabled exactly when the temperature and the
\* duration are both above zero: (0, X), (X, 0) and (0, 0) all disable it.
C13_HeaterEnablesGas ==
    op = "setGasHeater"
        => (/\ ret = TRUE
            /\ gas_sensor.heatr_temp = arg[1]
            /\ gas_sensor.heatr_dur = arg[2]
            /\ _gasEnabled = (arg[1] > 0 /\ arg[2] > 0)
            /\ gas_sensor.run_gas = IF arg[1] > 0 /\ arg[2] > 0
                                    THEN BME680_ENABLE_GAS_MEAS
                                    ELSE BME680_DISABLE_GAS_MEAS)

\* C13 witness: the heater was given a temperature and a duration of zero,
\* which disabled gas measurement.
C13_Witness ==
    /\ op = "setGasHeater" /\ arg = <<320, 0>>
    /\ ~_gasEnabled /\ gas_sensor.heatr_temp = 320

\* C14: a beginReading that finds no cycle in progress and whose
\* settings-apply and mode-set both succeed stores millis() plus the duration
\* the driver reported as the deadline of the cycle and returns that value.
C14_DeadlineIsNowPlusDuration ==
    (op = "beginReading" /\ Len(io) = 3)
        => (/\ io[3].call = "bme680_get_profile_dur"
            /\ _meas_end = now + io[3].arg
            /\ ret = _meas_end)

\* C14 witness: a cycle was started some time after begin().
C14_Witness ==
    /\ op = "beginReading" /\ Len(io) = 3
    /\ now > 0 /\ _meas_end > now /\ ret = _meas_end

\* C15: after every performReading no cycle is in progress (_meas_end = 0),
\* whether it returned true or failed in the read of the field data, and a
\* beginReading that follows it starts a new cycle: it programs the device
\* and, when that succeeds, computes a new deadline.
C15_FetchClearsCycle ==
    [][ /\ op' = "performReading" => _meas_end' = 0
        /\ (op = "performReading" /\ op' = "beginReading")
            => (/\ io' # <<>>
                /\ io'[1].call = "bme680_set_sensor_settings"
                /\ Len(io') = 3 => (/\ _meas_end' = now' + io'[3].arg
                                    /\ ret' = _meas_end')) ]_vars

\* C15 witness: a performReading found a cycle in progress (it made no
\* settings call) and failed in the read of the field data.
C15_Witness ==
    /\ op = "performReading" /\ ret = FALSE /\ _meas_end = 0
    /\ io # <<>>
    /\ io[1].call # "bme680_set_sensor_settings"
    /\ io[Len(io)].call = "bme680_get_sensor_data"

\* the positions in the calls of the last operation where `name` was called
CallsOf(name) == {i \in 1 .. Len(io) : io[i].call = name}

\* C16: performReading runs beginReading first.  With no cycle in progress it
\* programs the device, settings-apply then mode-set, before it reads the
\* field data; with a cycle in progress it reads the field data of that
\* cycle and does not program the device again.
C16_FetchTriggersFirst ==
    [][ op' = "performReading"
            => IF _meas_end = 0
               THEN /\ io'[1].call = "bme680_set_sensor_settings"
                    /\ Len(io') > 1 => io'[2].call = "bme680_set_sensor_mode"
                    /\ \A i \in CallsOf("bme680_get_sensor_data")' : i > 2
               ELSE /\ CallsOf("bme680_set_sensor_settings")' = {}
                    /\ CallsOf("bme680_set_sensor_mode")' = {}
                    /\ CallsOf("bme680_get_sensor_data")' = {Len(io')} ]_vars

\* C16 witness: a performReading found a cycle in progress, waited for it
\* and read its field data.
C16_Witness ==
    /\ op = "performReading" /\ ret = TRUE
    /\ io[1].call = "delay_ms"
    /\ io[2].call = "bme680_get_sensor_data"

\* the deadline of the cycle a performReading works on: the one in progress,
\* or the one its own beginReading computes
Deadline == IF _meas_end # 0 THEN _meas_end ELSE now + io'[3].arg

\* C17: in a performReading that got a deadline, when the remaining time
\* (deadline - millis()) is positive the one delay requested is exactly twice
\* that time; when the deadline is not in the future no delay is requested.
\* The clock value at the millis() call is the one after the call less the
\* time waited.
C17_WaitIsTwiceRemaining ==
    [][ (op' = "performReading" /\ CallsOf("bme680_get_sensor_data")' # {})
            => IF Deadline > now' - (IF CallsOf("delay_ms")' = {} THEN 0
                                     ELSE io'[Len(io') - 1].arg)
               THEN /\ CallsOf("delay_ms")' = {Len(io') - 1}
                    /\ io'[Len(io') - 1].arg
                         = 2 * (Deadline - (now' - io'[Len(io') - 1].arg))
               ELSE CallsOf("delay_ms")' = {} ]_vars

\* C17 witness: a performReading waited 4 ms for a deadline that was 2 ms
\* ahead.
C17_Witness ==
    /\ op = "performReading"
    /\ \E i \in CallsOf("delay_ms") : io[i].arg = 4

KeepsFieldsBut(own) ==
    \A f \in (DOMAIN gas_sensor) \ own : gas_sensor'[f] = gas_sensor[f]

\* the step makes no driver call and leaves the cycle and the readings alone
NoIoNoCycleChange ==
    io' = <<>> /\ UNCHANGED <<_meas_end, readings>>

\* C19: each setter changes only its own stored value and its own enabled
\* flag: it makes no driver call and leaves the values and flags of the
\* other channels, the cycle and the cached readings as they were; and
\* beginReading, performReading and reset change no enabled flag.
C19_SettersFrame ==
    [][ /\ op' = "setTemperatureOversampling"
            => (/\ KeepsFieldsBut({"os_temp"}) /\ NoIoNoCycleChange
                /\ UNCHANGED <<_humEnabled, _presEnabled, _filterEnabled,
                               _gasEnabled>>)
        /\ op' = "setHumidityOversampling"
            => (/\ KeepsFieldsBut({"os_hum"}) /\ NoIoNoCycleChange
                /\ UNCHANGED <<_tempEnabled, _presEnabled, _filterEnabled,
                               _gasEnabled>>)
        /\ op' = "setPressureOversampling"
            => (/\ KeepsFieldsBut({"os_pres"}) /\ NoIoNoCycleChange
                /\ UNCHANGED <<_tempEnabled, _humEnabled, _filterEnabled,
                               _gasEnabled>>)
        /\ op' = "setIIRFilterSize"
            => (/\ KeepsFieldsBut({"filter"}) /\ NoIoNoCycleChange
                /\ UNCHANGED <<_tempEnabled, _humEnabled, _presEnabled,
                               _gasEnabled>>)
        /\ op' = "setGasHeater"
            => (/\ KeepsFieldsBut({"heatr_temp", "heatr_dur", "run_gas"})
                /\ NoIoNoCycleChange
                /\ UNCHANGED <<_tempEnabled, _humEnabled, _presEnabled,
                               _filterEnabled>>)
        /\ op' \in {"beginReading", "performReading", "reset"}
            => UNCHANGED <<_tempEnabled, _humEnabled, _presEnabled,
                           _filterEnabled, _gasEnabled>> ]_vars

\* C19 witness: the humidity setter stored a new value while a cycle was in
\* progress, readings were cached and the temperature channel was off.
C19_Witness ==
    /\ op = "setHumidityOversampling" /\ arg = <<BME680_OS_1X>> /\ ret = TRUE
    /\ gas_sensor.os_hum = BME680_OS_1X /\ gas_sensor.os_temp = BME680_OS_NONE
    /\ ~_tempEnabled /\ _humEnabled
    /\ _meas_end # 0 /\ humidity = FDiv(45000, 1000)

\* C20: in every reachable state each enabled flag agrees with the stored
\* configuration: gas iff the heater temperature and duration are both
\* non-zero, temperature / humidity / pressure iff the channel's oversampling
\* is not NONE, the filter iff the filter size is not 0.
C20_FlagsAgreeWithConfig ==
    /\ _gasEnabled <=> (gas_sensor.heatr_temp # 0 /\ gas_sensor.heatr_dur # 0)
    /\ _tempEnabled <=> (gas_sensor.os_temp # BME680_OS_NONE)
    /\ _humEnabled <=> (gas_sensor.os_hum # BME680_OS_NONE)
    /\ _presEnabled <=> (gas_sensor.os_pres # BME680_OS_NONE)
    /\ _filterEnabled <=> (gas_sensor.filter # BME680_FILTER_SIZE_0)

\* C20 witness: after begin() the heater was given a temperature of zero, and
\* the temperature channel and the filter were switched off.
C20_Witness ==
    /\ started
    /\ ~_gasEnabled /\ gas_sensor.heatr_temp = 0 /\ gas_sensor.heatr_dur = 150
    /\ ~_tempEnabled /\ ~_filterEnabled /\ _humEnabled /\ _presEnabled

\* C21: reset makes the soft-reset call and nothing else: the oversampling
\* of every channel, the filter, the heater profile, the enabled flags and
\* the cached readings are as before.
C21_ResetKeepsConfig ==
    [][ op' = "reset"
            => (/\ Len(io') = 1 /\ io'[1].call = "bme680_soft_reset"
                /\ UNCHANGED <<config, readings>>) ]_vars

\* C21 witness: reset was called on a session with a configuration other
\* than the one of the constructor and with cached readings.
C21_Witness ==
    /\ op = "reset"
    /\ _humEnabled /\ ~_tempEnabled /\ gas_sensor.os_pres = BME680_OS_16X
    /\ gas_sensor.heatr_temp = 320
    /\ humidity = FDiv(45000, 1000) /\ gas_resistance # 0

\* the data transfers the last transport call tried: the TWI.i2c_write of
\* an i2c_write, the TWI.i2c_read of an i2c_read
Attempts ==
    IF op = "i2c_write" THEN CallsOf("TWI.i2c_write")
    ELSE CallsOf("TWI.i2c_read")

\* C22 as claimed: a transport read or write that reports failure has made
\* at most 3 bus attempts.
C22_AtMostThreeAttempts ==
    (op \in {"i2c_read", "i2c_write"} /\ ret = 1)
        => Cardinality(Attempts) <= 3

\* C22 as amended: a transport read or write makes at most 4 bus attempts,
\* the first one and up to 3 retries, whatever the bus outcomes; it reports
\* failure at once when the last attempt it is allowed has failed, and
\* success as soon as one attempt succeeds.
C22_AtMostFourAttempts ==
    op \in {"i2c_read", "i2c_write"}
        => (/\ Cardinality(Attempts) <= 4
            /\ \A i \in Attempts :
                  (io[i].rslt = "I2C_OK") => (i = Len(io) /\ ret = 0)
            /\ (ret = 0) => (io # <<>> /\ io[Len(io)].rslt = "I2C_OK"))

\* C22 witness: an i2c_write reported failure after its fourth attempt.
C22_Witness ==
    /\ op = "i2c_write" /\ ret = 1
    /\ Len(io) = 4 /\ io[4].rslt = "I2C_SDA_NACK"

Triggering(c) == {c2 \in Callers \ {c} : callers[c2].pc # "idle"}

\* C24: when the beginReading calls of two callers interleave, a call made
\* while another is triggering does not go on to trigger (it blocks or is
\* rejected), a deadline that is outstanding is not overwritten by a
\* beginReading, and the device is not programmed for a cycle that another
\* caller has programmed already.
C24_OneTriggerPerCycle ==
    [][ /\ \A c \in Callers :
              (callers[c].pc = "idle" /\ callers'[c].pc = "settings")
                  => Triggering(c) = {}
        /\ (op' = "beginReading" /\ _meas_end # 0)
              => _meas_end' = _meas_end
        /\ \A c \in Callers :
              (callers[c].pc = "settings" /\ callers'[c].pc # "settings")
                  => \A c2 \in Triggering(c) : callers[c2].pc = "settings"
      ]_vars

\* C25 as claimed: every wait a step begins runs its whole time and is
\* followed, in the same call, by the read of the field data.
C25_WaitRunsToCompletion ==
    [][ \A i \in CallsOf("delay_ms")' :
            /\ now' >= now + io'[i].arg
            /\ i < Len(io')
            /\ io'[i + 1].call = "bme680_get_sensor_data" ]_vars

\* C25: a wait that performReading has begun runs its whole time and is
\* followed by the read of the field data, unless a signal the program
\* handles arrives during it: then the wait ends early, the handler resets
\* the device, the process exits with success and no field data is read, the
\* cached readings staying as they were and the cycle staying in progress.
C25_WaitEndsEarlyOnlyBySignal ==
    [][ \A i \in CallsOf("delay_ms")' :
            IF op' = "signal_handler"
            THEN /\ now' < now + io'[i].arg
                 /\ CallsOf("bme680_get_sensor_data")' = {}
                 /\ io'[i + 1].call = "bme680_soft_reset"
                 /\ pc' = "exited" /\ exit_status' = "EXIT_SUCCESS"
                 /\ readings' = readings
                 /\ _meas_end' # 0
            ELSE /\ now' >= now + io'[i].arg
                 /\ i < Len(io')
                 /\ io'[i + 1].call = "bme680_get_sensor_data" ]_vars

\* C25 witness: a signal arrived in the wait of the second round's
\* readPressure(); the process has exited with the cycle in progress.
C25_Witness ==
    /\ op = "signal_handler" /\ CallsOf("delay_ms") # {}
    /\ pc = "exited" /\ exit_status = "EXIT_SUCCESS"
    /\ returned.name = "readHumidity" /\ loops = 1
    /\ _meas_end # 0

\* the oversampling values and the filter sizes of the command line
OversamplingValues == {0, 1, 2, 4, 8, 16}

\* the command line gives an oversampling value or a filter size that does
\* not exist
BadOption ==
    \/ \E o \in {"T", "H", "P"} \cap DOMAIN cmd :
          cmd[o] \notin OversamplingValues
    \/ "F" \in DOMAIN cmd /\ cmd["F"] \notin FilterSizes

\* the program is in main_loop()
InMainLoop == pc \in {"main_loop", "do_output_values"} \cup ReadCalls

\* C26: with an oversampling value or a filter size on the command line that
\* does not exist, the program never gets to its main loop, no measurement
\* cycle is triggered, and when the program has ended (other than by a
\* signal) it has ended with failure: the value is not replaced by a setting
\* that exists.
C26_BadOptionEndsProgram ==
    BadOption
        => /\ ~InMainLoop
           /\ CallsOf("bme680_set_sensor_settings") = {}
           /\ (pc = "exited" /\ op # "signal_handler")
                => exit_status = "EXIT_FAILURE"

\* C27: with a loop count L > 0 on the command line, main_loop() is left
\* with success only after exactly L rounds, and no round is begun after the
\* L-th; with no loop count, or 0, main_loop() is never left with success.
C27_LoopCount ==
    [][ /\ (op' = "do_output_values" /\ pc' = "closeout"
              /\ exit_status' = "EXIT_SUCCESS")
            => /\ "L" \in DOMAIN cmd
               /\ cmd["L"] > 0
               /\ loops' = cmd["L"]
        /\ ("L" \in DOMAIN cmd /\ cmd["L"] > 0 /\ pc' \in ReadCalls)
            => loops' < cmd["L"] ]_vars

\* the selection bit of a stage when the stage is enabled
Bit(enabled, sel) == IF enabled THEN sel ELSE 0

\* C28: the bitset a trigger hands to bme680_set_sensor_settings is the sum
\* of the selection bits of the stages whose flag is true when the trigger is
\* called (the bits are disjoint): each of these bits and no other.
C28_BitsetIsEnabledStages ==
    [][ \A i \in CallsOf("bme680_set_sensor_settings")' :
            io'[i].arg = Bit(_tempEnabled, BME680_OST_SEL)
                         + Bit(_humEnabled, BME680_OSH_SEL)
                         + Bit(_presEnabled, BME680_OSP_SEL)
                         + Bit(_filterEnabled, BME680_FILTER_SEL)
                         + Bit(_gasEnabled, BME680_GAS_SENSOR_SEL) ]_vars

\* C28 witness: a trigger with the temperature and gas stages enabled and
\* the other three disabled pushed the two bits of these stages.
C28_Witness ==
    /\ op = "beginReading" /\ io # <<>>
    /\ _tempEnabled /\ _gasEnabled
    /\ ~_humEnabled /\ ~_presEnabled /\ ~_filterEnabled
    /\ io[1].call = "bme680_set_sensor_settings"
    /\ io[1].arg = BME680_OST_SEL + BME680_GAS_SENSOR_SEL

\* the order of the driver calls of a trigger
TriggerOrder == <<"bme680_set_sensor_settings", "bme680_set_sensor_mode",
                  "bme680_get_profile_dur">>

\* C29: a beginReading that finds no cycle in progress leaves the power mode
\* forced and makes its driver calls in the order settings-apply, mode-set,
\* duration query; every call but the last one made has succeeded (nothing
\* follows a failed step); the deadline is stored, as the clock value plus
\* the duration, exactly when all three calls were made, and is left at 0
\* otherwise.
C29_TriggerStepsInOrder ==
    [][ (op' = "beginReading" /\ _meas_end = 0)
            => /\ gas_sensor'.power_mode = BME680_FORCED_MODE
               /\ Len(io') \in 1 .. 3
               /\ \A i \in 1 .. Len(io') : io'[i].call = TriggerOrder[i]
               /\ \A i \in 1 .. Len(io') - 1 : io'[i].rslt = BME680_OK
               /\ Len(io') < 3 => (/\ io'[Len(io')].rslt # BME680_OK
                                   /\ _meas_end' = 0)
               /\ Len(io') = 3 => (/\ _meas_end' = now + io'[3].arg
                                   /\ _meas_end' # 0) ]_vars

\* C29 witness: a trigger whose settings-apply succeeded and whose mode-set
\* failed, made after some time had passed: no duration query, no deadline.
C29_Witness ==
    /\ op = "beginReading" /\ now > 0
    /\ Len(io) = 2 /\ io[2].call = "bme680_set_sensor_mode"
    /\ io[2].rslt # BME680_OK
    /\ _meas_end = 0 /\ ret = 0
    /\ gas_sensor.power_mode = BME680_FORCED_MODE

\* C30: whenever performReading reads the field data, the clock is at or
\* after the deadline of the cycle it works on (the one in progress, or the
\* one its own trigger computed), the delay having lasted the time asked for.
C30_NoReadBeforeDeadline ==
    [][ (op' = "performReading" /\ CallsOf("bme680_get_sensor_data")' # {})
            => now' >= Deadline ]_vars

\* C30 witness: a performReading found a cycle in progress whose deadline
\* was still ahead, waited, and read the field data after the deadline.
C30_Witness ==
    /\ op = "performReading" /\ Len(io) = 2
    /\ io[1].call = "delay_ms" /\ io[1].arg = 2
    /\ io[2].call = "bme680_get_sensor_data"
    /\ now >= 3

\* C31: a beginReading that made all three driver calls (settings-apply and
\* mode-set succeeded) leaves a cycle in progress (_meas_end # 0) and
\* returns a number other than 0, the failure return, at every clock value
\* and for every reported duration.
C31_DeadlineIsNotFailure ==
    [][ (op' = "beginReading" /\ Len(io') = 3)
            => (_meas_end' # 0 /\ ret' # 0) ]_vars

\* the device was told to measure the stage with selection bit sel
Requested(sel) == BitAnd(device_settings, sel) # 0

\* C32: after a performReading that returned true on field data with the
\* "new data" bit, temperature, humidity and pressure are other than NaN
\* only for the stages in the bitset that the trigger of the fetched cycle
\* applied to the device.
C32_ValueOnlyIfRequested ==
    [][ (op' = "performReading" /\ ret' = TRUE /\ NewData(data'.status))
            => /\ temperature' # NAN => Requested(BME680_OST_SEL)'
               /\ humidity' # NAN => Requested(BME680_OSH_SEL)'
               /\ pressure' # NAN => Requested(BME680_OSP_SEL)' ]_vars

\* the member a read accessor returns, as it is before the call
Cached(name) ==
    CASE name = "readTemperature" -> temperature
      [] name = "readHumidity" -> humidity
      [] name = "readPressure" -> pressure
      [] name = "readGas" -> gas_resistance
      [] name = "readAltitude" -> Altitude(pressure, mm.sealevel)

\* C33: when the measurement cycle behind a read accessor fails (settings,
\* mode or read error), the accessor returns the value its member had before
\* the call, which is all the caller gets, as after a cycle that succeeded.
C33_FailedCycleReturnsCached ==
    [][ (op' = "performReading" /\ ret' = FALSE)
            => /\ returned'.name \in ReadCalls
               /\ returned'.value = Cached(returned'.name) ]_vars

\* C33 witness: readHumidity after a read error of the field data returned
\* the humidity an earlier cycle had stored.
C33_Witness ==
    /\ op = "performReading" /\ ret = FALSE
    /\ Len(io) >= 4 /\ io[Len(io)].call = "bme680_get_sensor_data"
    /\ returned.name = "readHumidity"
    /\ returned.value = FDiv(45000, 1000)


\* the kinds of failure of a bus attempt
Failures == Wstatus \ {"I2C_OK"}

\* C34: i2c_read and i2c_write end for every sequence of bus outcomes, after
\* at most 4 data attempts; they return 0 when a data attempt returned
\* I2C_OK and 1 in every other case, whatever the kinds of the failures
\* (NACK, clock stretch, short data, unknown).
C34_TransportEndsUniformly ==
    op \in {"i2c_read", "i2c_write"}
        => /\ ret \in {0, 1}
           /\ Cardinality(Attempts) <= 4
           /\ Len(io) <= 2 * 4
           /\ (ret = 0) <=> (\E i \in Attempts : io[i].rslt = "I2C_OK")
           /\ (\A i \in Attempts : io[i].rslt \in Failures) => ret = 1

\* C34 witness: an i2c_read whose data attempts failed in four different
\* ways, the last one with an unknown status, returned 1.
C34_Witness ==
    /\ op = "i2c_read" /\ ret = 1
    /\ Cardinality(Attempts) = 4
    /\ {io[i].rslt : i \in Attempts} = Failures
    /\ io[Len(io)].rslt = "unknown"

\* C35: when the gas resistance readGas() returned in a round of the main
\* loop is 0, with the gas measurement on or turned off by a heater
\* temperature or duration of 0, read_BME680 returns false and main_loop
\* calls closeout(EXIT_FAILURE); no output is made in a round whose gas
\* resistance is 0.
C35_ZeroGasEndsProgram ==
    [][ /\ (pc = "readGas" /\ op' = "performReading" /\ returned'.value = 0)
            => (pc' = "closeout" /\ exit_status' = "EXIT_FAILURE")
        /\ op' = "do_output_values"
            => (pc = "do_output_values" /\ mm.gas_resistance # 0) ]_vars

\* C35 witness: with -C 0 the gas measurement is off, readGas() returned 0
\* after a cycle that succeeded, and the program is about to close with
\* failure.
C35_Witness ==
    /\ "C" \in DOMAIN cmd /\ ~_gasEnabled
    /\ op = "performReading" /\ ret = TRUE
    /\ returned = [name |-> "readGas", value |-> 0]
    /\ mm.tempC = FDiv(2150, 100)
    /\ pc = "closeout" /\ exit_status = "EXIT_FAILURE"

\* C36: when readTemperature(), readHumidity() or readPressure() returns NaN
\* in a round of the main loop, read_BME680 returns false and main_loop calls
\* closeout(EXIT_FAILURE); no output is made of a record that holds a NaN
\* temperature, humidity or pressure.
C36_NaNEndsProgram ==
    [][ /\ (/\ pc \in {"readTemperature", "readHumidity", "readPressure"}
            /\ op' = "performReading" /\ returned'.value = NAN)
            => (pc' = "closeout" /\ exit_status' = "EXIT_FAILURE")
        /\ op' = "do_output_values"
            => (mm.tempC # NAN /\ mm.humid # NAN /\ mm.pressure # NAN) ]_vars

\* the step ends the program after TWI.begin() has opened the I2C channel
ExitsWithChannelOpen ==
    /\ pc # "exited" /\ pc' = "exited"
    /\ \/ pc \notin {"main", "begin"}
       \/ op' = "begin" /\ io'[1] = Call("TWI.begin", 0, 0)

\* C37: every exit of the program after the I2C channel was opened (end of
\* the loop, read or output failure, rejected setting, failure of the sensor
\* initialisation, shutdown signal) comes after a soft reset of the sensor
\* and then the closing of the I2C channel, the last two things done.
C37_ExitResetsThenCloses ==
    [][ ExitsWithChannelOpen
            => /\ Len(io') >= 2
               /\ io'[Len(io') - 1].call = "bme680_soft_reset"
               /\ io'[Len(io')] = hw_close ]_vars

=========================================================================
